---- MODULE Spec2Model ----
(* Verification model of phpstan-ls-lite:                                   *)
(*   - the diagnostics service (debounce timers, the serialized analysis    *)
(*     queue and the run state machine of runForDocument),                  *)
(*   - the reflection bridge client (worker process, pending requests).     *)
EXTENDS Bags, FiniteSets, Integers, Sequences, TLC

(* ------------------------------------------------------------------ *)
(* Bounds                                                             *)
(* ------------------------------------------------------------------ *)

\* highest document version an editor hands to schedule
MaxVersion == 2
\* most tasks waiting in or running at the head of the analysis chain
MaxQueue == 2
\* most bridge requests sent in one behaviour
MaxRequests == 3
\* most worker processes spawned in one behaviour
MaxWorkers == 3

(* ------------------------------------------------------------------ *)
(* Values                                                             *)
(* ------------------------------------------------------------------ *)

FileUris == {"file:///p/a.php"}
OtherUris == {"untitled:c"}
Uris == FileUris \cup OtherUris
Versions == 1..MaxVersion
Triggers == {"open", "change", "save"}

\* a TextDocument as the service sees it: uri and version (its text is
\* determined by the pair)
Doc(uri, version) == [uri |-> uri, version |-> version]
Docs == {Doc(u, v) : u \in Uris, v \in Versions}

\* Map helpers (a JavaScript Map is a function on the set of its keys)
EmptyMap == [k \in {} |-> k]
MapSet(m, k, v) == [x \in (DOMAIN m) \cup {k} |-> IF x = k THEN v ELSE m[x]]
MapDelete(m, k) == [x \in (DOMAIN m) \ {k} |-> m[x]]
\* Map.get: <<>> stands for undefined
MapGet(m, k) == IF k \in DOMAIN m THEN <<m[k]>> ELSE <<>>

RemoveAt(s, i) == [j \in 1..(Len(s) - 1) |-> IF j < i THEN s[j] ELSE s[j + 1]]

(* ------------------------------------------------------------------ *)
(* State                                                              *)
(* ------------------------------------------------------------------ *)

VARIABLES
  settings,            \* enableDiagnostics, runOnDidSaveOnly
  timers,              \* Map uri -> timer handle (the handle carries its document)
  armed,               \* bag of timers set and neither fired nor cleared
  versions,            \* Map uri -> latest recorded version
  pendingDocuments,    \* Map uri -> document
  versionSupportCache, \* Map cacheKey -> boolean
  tasks,               \* documentAnalysisChain: the tasks not yet ended, oldest first
  chainRejected,       \* documentAnalysisChain is a rejected promise
  orphaned,            \* snapshots left on disk by the task the last step ended
  published,           \* bag of publishDiagnostics calls made by the last step
  logged,              \* logger lines written by the last step
  cancelled,           \* uris whose timer the last step passed to clearTimeout
  ended,               \* how the task ended that the last step ended ("" if none)
  child,               \* bridge: the worker reference
  lineReader,          \* bridge: the worker whose stdout the current reader reads
  pending,             \* bridge: Map id -> PendingRequest
  requests,            \* bridge: every request sent so far, by id
  workers,             \* bridge: every worker spawned so far, by number
  resolved,            \* bridge: the resolve calls made by the last step
  handled,             \* bridge: the line the line handler was called with in the last step
  sample               \* the arguments and the result of a function applied on its own

diagVars == <<settings, timers, armed, versions, pendingDocuments,
              versionSupportCache, tasks, chainRejected, orphaned, published,
              logged, cancelled, ended>>
bridgeVars == <<child, lineReader, pending, requests, workers, resolved, handled>>
vars == <<diagVars, bridgeVars, sample>>

DEFAULT_SETTINGS == [enableDiagnostics |-> TRUE, runOnDidSaveOnly |-> FALSE]

(* ------------------------------------------------------------------ *)
(* Diagnostics service: pure helpers                                  *)
(* ------------------------------------------------------------------ *)

\* uriToFilePath: <<>> (null) unless the uri starts with file://
uriToFilePath(uri) == IF uri \in FileUris THEN <<uri>> ELSE <<>>

\* mergeSettings, for the two switches; <<>> stands for an omitted key
mergeSettings(base, incoming) ==
  [enableDiagnostics |-> IF incoming.enableDiagnostics = <<>>
                           THEN base.enableDiagnostics
                           ELSE incoming.enableDiagnostics[1],
   runOnDidSaveOnly |-> IF incoming.runOnDidSaveOnly = <<>>
                          THEN base.runOnDidSaveOnly
                          ELSE incoming.runOnDidSaveOnly[1]]

OptionalBooleans == {<<>>, <<TRUE>>, <<FALSE>>}
SettingsUpdates == [enableDiagnostics : OptionalBooleans, runOnDidSaveOnly : OptionalBooleans]

\* compareVersions / isPhpstanEditorModeSupported on the output of --version:
\* dev is the '-dev@' marker, semver the first major.minor.patch token (<<>> if none)
RECURSIVE compareVersions(_, _)
compareVersions(left, right) ==
  IF left = <<>> /\ right = <<>> THEN 0
  ELSE LET l == IF left = <<>> THEN 0 ELSE Head(left)
           r == IF right = <<>> THEN 0 ELSE Head(right)
       IN IF l < r THEN -1
          ELSE IF l > r THEN 1
          ELSE compareVersions(IF left = <<>> THEN <<>> ELSE Tail(left),
                               IF right = <<>> THEN <<>> ELSE Tail(right))

MIN_SUPPORTED_V1 == <<1, 12, 27>>
MIN_SUPPORTED_V2 == <<2, 1, 17>>

\* variant: major 2 is treated like the later majors
isPhpstanEditorModeSupportedFromV2(versionOutput) ==
  IF versionOutput.dev THEN TRUE
  ELSE IF versionOutput.semver = <<>> THEN FALSE
  ELSE LET major == versionOutput.semver[1]
       IN IF major = 1 THEN compareVersions(versionOutput.semver, MIN_SUPPORTED_V1) >= 0
          ELSE major >= 2

isPhpstanEditorModeSupported(versionOutput) ==
  IF versionOutput.dev THEN TRUE
  ELSE IF versionOutput.semver = <<>> THEN FALSE
  ELSE LET major == versionOutput.semver[1]
       IN IF major = 1 THEN compareVersions(versionOutput.semver, MIN_SUPPORTED_V1) >= 0
          ELSE IF major = 2 THEN compareVersions(versionOutput.semver, MIN_SUPPORTED_V2) >= 0
          ELSE major > 2

\* the text of a version output is a sequence of characters
DigitChars == <<"0", "1", "2", "3", "4", "5", "6", "7", "8", "9">>
IsDigit(c) == \E d \in 1..Len(DigitChars) : DigitChars[d] = c
DigitValue(c) == (CHOOSE d \in 1..Len(DigitChars) : DigitChars[d] = c) - 1

\* Number(match[k]) of a run of digits
RECURSIVE ToNumber(_)
ToNumber(digits) ==
  IF digits = <<>> THEN 0
  ELSE ToNumber(SubSeq(digits, 1, Len(digits) - 1)) * 10 + DigitValue(digits[Len(digits)])

\* \d+ from position i, greedy: the position after the run
RECURSIVE DigitRunEnd(_, _)
DigitRunEnd(text, i) ==
  IF i <= Len(text) /\ IsDigit(text[i]) THEN DigitRunEnd(text, i + 1) ELSE i

\* /(\d+)\.(\d+)\.(\d+)/ matches at position i; the ends of the three groups
SemverEnds(text, i) ==
  LET e1 == DigitRunEnd(text, i)
      e2 == DigitRunEnd(text, e1 + 1)
      e3 == DigitRunEnd(text, e2 + 1)
  IN <<e1, e2, e3>>

SemverMatchesAt(text, i) ==
  LET e == SemverEnds(text, i)
  IN /\ e[1] > i /\ e[1] <= Len(text) /\ text[e[1]] = "."
     /\ e[2] > e[1] + 1 /\ e[2] <= Len(text) /\ text[e[2]] = "."
     /\ e[3] > e[2] + 1

\* extractSemver: the leftmost match, <<>> stands for null
extractSemver(text) ==
  IF \E i \in 1..Len(text) : SemverMatchesAt(text, i)
    THEN LET i == CHOOSE k \in 1..Len(text) :
                    SemverMatchesAt(text, k) /\ \A j \in 1..(k - 1) : ~SemverMatchesAt(text, j)
             e == SemverEnds(text, i)
         IN <<ToNumber(SubSeq(text, i, e[1] - 1)),
              ToNumber(SubSeq(text, e[1] + 1, e[2] - 1)),
              ToNumber(SubSeq(text, e[2] + 1, e[3] - 1))>>
    ELSE <<>>

\* String.includes
Includes(text, needle) ==
  \E i \in 1..(Len(text) - Len(needle) + 1) : SubSeq(text, i, i + Len(needle) - 1) = needle

DevMarker == <<"-", "d", "e", "v", "@">>

\* what isPhpstanEditorModeSupported reads from the text
readVersionOutput(text) == [dev |-> Includes(text, DevMarker), semver |-> extractSemver(text)]

VersionOutputs == {[dev |-> FALSE, semver |-> <<1, 12, 27>>],
                   [dev |-> FALSE, semver |-> <<2, 1, 16>>],
                   [dev |-> TRUE, semver |-> <<>>],
                   [dev |-> FALSE, semver |-> <<>>]}

\* exit codes of runProcess: 0, non-zero, and -1 for a launch failure
ExitCodes == {0, 1, -1}

\* what runForDocument reads from the result of an analysis process:
\*   forFile / forTemp : extractDiagnosticsForFile is non-empty for the original /
\*                       the snapshot path;  globalErrors : extractGlobalErrors is non-empty
\*   stderr : stderr.trim() is non-empty;  syntax : hasPhpSyntaxError(stdout, stderr)
ProcessResults ==
  {r \in [code : ExitCodes, forFile : BOOLEAN, forTemp : BOOLEAN, globalErrors : BOOLEAN,
          stderr : BOOLEAN, syntax : BOOLEAN] :
     r.code = -1 => (r.stderr /\ ~r.forFile /\ ~r.forTemp /\ ~r.globalErrors /\ ~r.syntax)}

\* the cache key of detectEditorMode, `${cwd}::${command}`
cacheKey(uri) == "/p::phpstan"

Pub(uri, kind, version, via) == [uri |-> uri, kind |-> kind, version |-> version, via |-> via]
NoPub == EmptyBag
OnePub(p) == SetToBag({p})

NewTask(uri) == [uri |-> uri, pc |-> "queued", version |-> 0, temp |-> FALSE,
                 editorModeUsed |-> FALSE, exit |-> ""]

ProcessPcs == {"probe", "primary", "fallback"}
\* the external processes of the diagnostics service that are running
RunningProcesses == {i \in 1..Len(tasks) : tasks[i].pc \in ProcessPcs}

(* ------------------------------------------------------------------ *)
(* Diagnostics service: the checks and the queue                      *)
(* ------------------------------------------------------------------ *)

\* variant: the first version check is missing
currentVersionIgnored(doc) == FALSE

\* runForDocument, first check: currentVersion !== document.version
currentVersionDiffers(doc) == MapGet(versions, doc.uri) # <<doc.version>>

\* variant: the version check after the primary process drops every result
staleVersionAlways(doc) == TRUE

\* variant: the version check after the primary execution is missing
staleVersionIgnored(doc) == FALSE

\* runForDocument, after the primary execution: staleVersion !== document.version
staleVersionDiffers(doc) == MapGet(versions, doc.uri) # <<doc.version>>

\* variant: the version check after the fallback process is missing
fallbackStaleVersionIgnored(doc) == FALSE

\* runForDocument, after the fallback execution
fallbackStaleVersionDiffers(doc) == MapGet(versions, doc.uri) # <<doc.version>>

\* variant: the task is invoked directly instead of being chained
chainTurnAny(i) == TRUE

\* enqueueDocumentTask: a task runs as the continuation of the chain, that is
\* once every task enqueued before it has ended
chainTurn(i) == i = 1

\* variant: the chain has no .catch, a fault leaves it rejected
catchTaskFailureMissing == [rejected |-> TRUE, log |-> {}]

\* enqueueDocumentTask: .catch logs the fault and leaves the chain fulfilled
catchTaskFailure == [rejected |-> FALSE, log |-> {"task failed"}]

\* variant: the existing timer is not cleared
clearTimeoutNoop(bag, handle) == bag

\* clearTimeout on a handle
clearTimeout(bag, handle) == bag (-) SetToBag({handle})

EndTask(i, how) ==
  /\ tasks' = RemoveAt(tasks, i)
  /\ ended' = how
  /\ IF how = "fault"
       THEN /\ chainRejected' = catchTaskFailure.rejected
            /\ logged' = catchTaskFailure.log
       ELSE /\ chainRejected' = chainRejected
            /\ logged' = {}

StepTask(i, pc, temp, editorModeUsed, exit) ==
  /\ tasks' = [tasks EXCEPT ![i] = [@ EXCEPT !.pc = pc, !.temp = temp,
                                            !.editorModeUsed = editorModeUsed,
                                            !.exit = exit]]
  /\ ended' = ""
  /\ chainRejected' = chainRejected
  /\ logged' = {}

\* runProcess(command) inside the try block of runForDocument; a synchronous
\* fault of spawn rejects the promise and control passes to the finally block
LaunchInTry(i, pc, editorModeUsed, spawnOk) ==
  IF spawnOk THEN StepTask(i, pc, TRUE, editorModeUsed, "")
  ELSE StepTask(i, "cleanup", TRUE, editorModeUsed, "fault")

TaskDoc(i) == Doc(tasks[i].uri, tasks[i].version)

(* ------------------------------------------------------------------ *)
(* Diagnostics service: operations                                    *)
(* ------------------------------------------------------------------ *)

\* updateSettings(incoming)
updateSettings(incoming) ==
  /\ settings' = mergeSettings(settings, incoming)
  /\ published' = IF settings'.enableDiagnostics THEN NoPub
                  ELSE SetToBag({Pub(u, "empty", 0, "settings") : u \in DOMAIN versions})
  /\ logged' = {}
  /\ cancelled' = {}
  /\ ended' = ""
  /\ UNCHANGED <<timers, armed, versions, pendingDocuments,
                 versionSupportCache, tasks, chainRejected>>
  /\ orphaned' = {}
  /\ UNCHANGED <<bridgeVars, sample>>

\* the versions of uri the service still holds somewhere
KnownVersions(uri) ==
  {d.version : d \in {x \in BagToSet(armed) : x.uri = uri}}
    \cup {versions[u] : u \in (DOMAIN versions) \cap {uri}}
    \cup {pendingDocuments[u].version : u \in (DOMAIN pendingDocuments) \cap {uri}}
    \cup {tasks[i].version : i \in {j \in 1..Len(tasks) : tasks[j].uri = uri /\ tasks[j].version > 0}}

\* schedule(document, trigger); TextDocument.version never decreases for one uri
schedule(uri, version, trigger) ==
  /\ \A v \in KnownVersions(uri) : version >= v
  /\ IF ~settings.enableDiagnostics \/ (settings.runOnDidSaveOnly /\ trigger # "save")
       THEN /\ UNCHANGED <<versions, timers, armed>>
            /\ cancelled' = {}
       ELSE /\ versions' = MapSet(versions, uri, version)
            /\ cancelled' = {uri} \cap DOMAIN timers
            /\ armed' = (IF uri \in DOMAIN timers
                           THEN clearTimeout(armed, timers[uri])
                           ELSE armed) (+) SetToBag({Doc(uri, version)})
            /\ timers' = MapSet(timers, uri, Doc(uri, version))
  /\ published' = NoPub
  /\ logged' = {}
  /\ ended' = ""
  /\ UNCHANGED <<settings, pendingDocuments, versionSupportCache, tasks,
                 chainRejected>>
  /\ orphaned' = {}
  /\ UNCHANGED <<bridgeVars, sample>>

\* the debounce timer of a schedule call fires: the callback of setTimeout
timerFire(document) ==
  /\ BagIn(document, armed)
  /\ Len(tasks) < MaxQueue
  /\ armed' = armed (-) SetToBag({document})
  /\ timers' = MapDelete(timers, document.uri)
  /\ pendingDocuments' = MapSet(pendingDocuments, document.uri, document)
  /\ tasks' = Append(tasks, NewTask(document.uri))
  /\ published' = NoPub
  /\ logged' = {}
  /\ cancelled' = {}
  /\ ended' = ""
  /\ UNCHANGED <<settings, versions, versionSupportCache,
                 chainRejected>>
  /\ orphaned' = {}
  /\ UNCHANGED <<bridgeVars, sample>>

\* variant: clear leaves the pending document of the uri in place
clearPendingDocumentKept(uri) == pendingDocuments

\* clear(uri): pendingDocuments.delete(uri)
clearPendingDocument(uri) == MapDelete(pendingDocuments, uri)

\* clear(uri)
clear(uri) ==
  /\ armed' = (IF uri \in DOMAIN timers THEN clearTimeout(armed, timers[uri]) ELSE armed)
  /\ timers' = MapDelete(timers, uri)
  /\ versions' = MapDelete(versions, uri)
  /\ pendingDocuments' = clearPendingDocument(uri)
  /\ published' = OnePub(Pub(uri, "empty", 0, "clear"))
  /\ logged' = {}
  /\ cancelled' = {uri} \cap DOMAIN timers
  /\ ended' = ""
  /\ UNCHANGED <<settings, versionSupportCache, tasks, chainRejected>>
  /\ orphaned' = {}
  /\ UNCHANGED <<bridgeVars, sample>>

\* dispose()
dispose ==
  /\ armed' = EmptyBag
  /\ timers' = EmptyMap
  /\ versions' = EmptyMap
  /\ versionSupportCache' = EmptyMap
  /\ pendingDocuments' = EmptyMap
  /\ published' = NoPub
  /\ logged' = {}
  /\ cancelled' = DOMAIN timers
  /\ ended' = ""
  /\ UNCHANGED <<settings, tasks, chainRejected>>
  /\ orphaned' = {}
  /\ UNCHANGED <<bridgeVars, sample>>

\* variant: the queued task leaves the pending document in the map
deletePendingDocumentKept(uri) == pendingDocuments

\* the queued task: pendingDocuments.delete(document.uri)
deletePendingDocument(uri) == MapDelete(pendingDocuments, uri)

\* the queued task starts: the closure of enqueueDocumentTask up to the first
\* await of runForDocument (resolvePhpstanRuntime)
startTask(i) ==
  /\ i \in 1..Len(tasks)
  /\ tasks[i].pc = "queued"
  /\ chainTurn(i)
  /\ ~chainRejected
  /\ pendingDocuments' = deletePendingDocument(tasks[i].uri)
  /\ IF tasks[i].uri \notin DOMAIN pendingDocuments
       THEN /\ EndTask(i, "idle")
            /\ published' = NoPub
       ELSE LET document == pendingDocuments[tasks[i].uri]
            IN IF currentVersionDiffers(document)
                 THEN /\ EndTask(i, "stale")
                      /\ published' = NoPub
                 ELSE IF uriToFilePath(document.uri) = <<>>
                   THEN /\ EndTask(i, "nofile")
                        /\ published' = OnePub(Pub(document.uri, "empty", document.version, "nofile"))
                   ELSE /\ tasks' = [tasks EXCEPT ![i] = [@ EXCEPT !.pc = "snapshot",
                                                                 !.version = document.version]]
                        /\ chainRejected' = chainRejected
                        /\ logged' = {}
                        /\ ended' = ""
                        /\ published' = NoPub
  /\ UNCHANGED <<settings, timers, armed, versions, versionSupportCache>>
  /\ orphaned' = {}
  /\ cancelled' = {}
  /\ UNCHANGED <<bridgeVars, sample>>

\* variant: the lookup never finds an entry
cachedNever(key) == <<>>

\* detectEditorMode: versionSupportCache.get(cacheKey); <<>> stands for undefined
cached(key) == MapGet(versionSupportCache, key)

\* detectEditorMode: the outcome of the version probe
probeSupported(code, versionOutput) == code = 0 /\ isPhpstanEditorModeSupported(versionOutput)

\* buildAnalyzeCommandForDocument: createTempPhpFile, then detectEditorMode up to
\* the cache lookup; on a hit the primary process is launched, on a miss the probe
createSnapshot(i, created, spawnOk) ==
  /\ i \in 1..Len(tasks)
  /\ tasks[i].pc = "snapshot"
  /\ created \/ spawnOk
  /\ cancelled' = {}
  /\ published' = NoPub
  /\ IF ~created
       THEN /\ EndTask(i, "fault")
            /\ orphaned' = {}
       ELSE IF cached(cacheKey(tasks[i].uri)) # <<>>
         THEN /\ LaunchInTry(i, "primary", cached(cacheKey(tasks[i].uri))[1], spawnOk)
              /\ orphaned' = {}
         ELSE IF spawnOk
           THEN /\ StepTask(i, "probe", TRUE, FALSE, "")
                /\ orphaned' = {}
           ELSE /\ EndTask(i, "fault")
                /\ orphaned' = {TaskDoc(i)}
  /\ UNCHANGED <<settings, timers, armed, versions, pendingDocuments,
                 versionSupportCache>>
  /\ UNCHANGED <<bridgeVars, sample>>

\* detectEditorMode after the version probe has ended, then the rest of
\* buildAnalyzeCommandForDocument and the launch of the primary process
probeDone(i, code, versionOutput, spawnOk) ==
  /\ i \in 1..Len(tasks)
  /\ tasks[i].pc = "probe"
  /\ LET supported == probeSupported(code, versionOutput)
     IN /\ versionSupportCache' = MapSet(versionSupportCache, cacheKey(tasks[i].uri), supported)
        /\ LaunchInTry(i, "primary", supported, spawnOk)
  /\ cancelled' = {}
  /\ published' = NoPub
  /\ UNCHANGED <<settings, timers, armed, versions, pendingDocuments>>
  /\ orphaned' = {}
  /\ UNCHANGED <<bridgeVars, sample>>

\* variant: the snapshot path is consulted whether or not editor mode was used
primaryKindTempAlways(r, editorModeUsed) ==
  IF r.forFile THEN "file"
  ELSE IF r.forTemp THEN "temp"
  ELSE IF r.globalErrors THEN "global"
  ELSE "empty"

\* the diagnostics runForDocument takes from the primary output
primaryKind(r, editorModeUsed) ==
  IF r.forFile THEN "file"
  ELSE IF ~editorModeUsed /\ r.forTemp THEN "temp"
  ELSE IF r.globalErrors THEN "global"
  ELSE "empty"

\* variant: the launch-failure branch is missing
isLaunchFailureNever(r) == FALSE

\* runForDocument: result.code === -1
isLaunchFailure(r) == r.code = -1

\* what runForDocument does with the result of the primary process of a run
\* that is not stale: parsed = the output is handed to the extract functions,
\* fallback = the saved-file analysis is run, kind = what is published otherwise
primaryOutcome(r, editorModeUsed) ==
  IF isLaunchFailure(r)
    THEN [parsed |-> FALSE, fallback |-> FALSE, kind |-> "failure"]
  ELSE LET kind == primaryKind(r, editorModeUsed)
       IN IF kind = "empty" /\ r.code # 0 /\ r.stderr
            THEN IF r.syntax
                   THEN [parsed |-> TRUE, fallback |-> TRUE, kind |-> "none"]
                   ELSE [parsed |-> TRUE, fallback |-> FALSE, kind |-> "failure"]
            ELSE [parsed |-> TRUE, fallback |-> FALSE, kind |-> kind]

\* the diagnostics runForDocument takes from the fallback output
fallbackKind(r) ==
  IF r.forFile THEN "file"
  ELSE IF r.globalErrors THEN "global"
  ELSE IF r.code # 0 /\ r.stderr THEN "failure"
  ELSE "empty"

\* runForDocument after the primary process has ended: the result r of the
\* process is read only by a run that is not stale, and a fallback process is
\* spawned (spawnOk: without a synchronous throw) only for a syntax error
primaryDone(i) ==
  /\ i \in 1..Len(tasks)
  /\ tasks[i].pc = "primary"
  /\ cancelled' = {}
  /\ LET document == TaskDoc(i)
         editorModeUsed == tasks[i].editorModeUsed
         toCleanup == StepTask(i, "cleanup", TRUE, editorModeUsed, "published")
     IN IF staleVersionDiffers(document)
          THEN /\ StepTask(i, "cleanup", TRUE, editorModeUsed, "stale")
               /\ published' = NoPub
          ELSE \E outcome \in {primaryOutcome(r, editorModeUsed) : r \in ProcessResults} :
                    IF outcome.fallback
                      THEN /\ \E spawnOk \in BOOLEAN :
                                LaunchInTry(i, "fallback", editorModeUsed, spawnOk)
                           /\ published' = NoPub
                      ELSE toCleanup
                           /\ published' = OnePub(Pub(document.uri, outcome.kind, document.version, "primary"))
  /\ UNCHANGED <<settings, timers, armed, versions, pendingDocuments,
                 versionSupportCache>>
  /\ orphaned' = {}
  /\ UNCHANGED <<bridgeVars, sample>>

\* runForDocument after the saved-file fallback process has ended with result r
fallbackDone(i) ==
  /\ i \in 1..Len(tasks)
  /\ tasks[i].pc = "fallback"
  /\ cancelled' = {}
  /\ LET document == TaskDoc(i)
     IN IF fallbackStaleVersionDiffers(document)
          THEN /\ StepTask(i, "cleanup", TRUE, tasks[i].editorModeUsed, "stale")
               /\ published' = NoPub
          ELSE \E kind \in {fallbackKind(r) : r \in ProcessResults} :
                 /\ StepTask(i, "cleanup", TRUE, tasks[i].editorModeUsed, "published")
                 /\ published' = OnePub(Pub(document.uri, kind, document.version, "fallback"))
  /\ UNCHANGED <<settings, timers, armed, versions, pendingDocuments,
                 versionSupportCache>>
  /\ orphaned' = {}
  /\ UNCHANGED <<bridgeVars, sample>>

\* the finally block: cleanupTempPhpFile, then the task ends (with the fault
\* the try block raised, if any)
cleanupTempPhpFile(i) ==
  /\ i \in 1..Len(tasks)
  /\ tasks[i].pc = "cleanup"
  /\ EndTask(i, IF tasks[i].exit = "fault" THEN "fault" ELSE "done")
  /\ orphaned' = {}
  /\ cancelled' = {}
  /\ published' = NoPub
  /\ UNCHANGED <<settings, timers, armed, versions, pendingDocuments,
                 versionSupportCache>>
  /\ UNCHANGED <<bridgeVars, sample>>

(* ------------------------------------------------------------------ *)
(* Reflection bridge client                                           *)
(* ------------------------------------------------------------------ *)

REFLECTION_PROTOCOL_VERSION == 1

\* a line of worker output: json = it parses to an object; id 0 = the id is not
\* a string; ok "missing" = ok is not a boolean (a line that does not parse has
\* no fields: it is written with the values of absent fields)
Lines ==
  {l \in [json : BOOLEAN, protocolVersion : {1, 2}, id : 0..MaxRequests,
          ok : {"true", "false", "missing"}] :
     ~l.json => (l.protocolVersion = 2 /\ l.id = 0 /\ l.ok = "missing")}

\* variant: the protocol version of a response is not compared
parseReflectionResponseAnyVersion(raw) ==
  IF ~raw.json THEN <<>>
  ELSE IF raw.id = 0 \/ raw.ok = "missing" THEN <<>>
  ELSE <<[id |-> raw.id, ok |-> raw.ok = "true"]>>

\* parseReflectionResponse: <<>> stands for null
parseReflectionResponse(raw) ==
  IF ~raw.json THEN <<>>
  ELSE IF raw.protocolVersion # REFLECTION_PROTOCOL_VERSION THEN <<>>
  ELSE IF raw.id = 0 \/ raw.ok = "missing" THEN <<>>
  ELSE <<[id |-> raw.id, ok |-> raw.ok = "true"]>>

NewWorker == [errored |-> FALSE, closed |-> FALSE, killed |-> FALSE, readerOpen |-> TRUE]
\* variant: sendRequest arms no timeout timer
NewRequestNoTimer == [calls |-> 0, timer |-> FALSE]

\* a request: the number of resolve calls made for it (2 stands for more than
\* one) and whether its timeout timer is armed
NewRequest == [calls |-> 0, timer |-> TRUE]

\* request.resolve(value): the call is counted
resolveRequest(reqs, id) ==
  [reqs EXCEPT ![id].calls = IF @ = 0 THEN 1 ELSE 2]

\* a resolve call: the request, the value ("ok", "error" or "null") and the caller
Resolution(id, value, by) == [id |-> id, value |-> value, by |-> by]

\* clearTimeout(request.timer)
clearRequestTimer(reqs, id) == [reqs EXCEPT ![id].timer = FALSE]

\* lineReader?.close()
closeLineReader(ws) ==
  IF lineReader = <<>> THEN ws ELSE [ws EXCEPT ![lineReader[1]].readerOpen = FALSE]

\* clearPending: every entry has its timer cleared, is resolved with null and deleted
RECURSIVE clearPendingRequests(_, _)
clearPendingRequests(reqs, ids) ==
  IF ids = {} THEN reqs
  ELSE LET id == CHOOSE x \in ids : TRUE
       IN clearPendingRequests(
            resolveRequest(clearRequestTimer(reqs, pending[id].timer), pending[id].resolve),
            ids \ {id})

\* clearPending: the resolve calls it makes
clearPendingResolved(reason) ==
  {Resolution(pending[id].resolve, "null", reason) : id \in DOMAIN pending}

clearPendingMap == EmptyMap

\* variant: the line handler drops every pending entry on a matching response
lineHandlerPendingCleared(id) == EmptyMap

\* the line handler: the pending map after a matching response
lineHandlerPending(id) == MapDelete(pending, id)

\* variant: the line handler resolves without clearing the timer
lineHandlerRequestsNoClear(response) ==
  resolveRequest(requests, pending[response.id].resolve)

\* the line handler: the requests after a matching response
lineHandlerRequests(response) ==
  resolveRequest(clearRequestTimer(requests, pending[response.id].timer),
                 pending[response.id].resolve)

\* variant: the line handler resolves the oldest pending request
lineHandlerResolvedOldest(response) ==
  LET oldest == CHOOSE id \in DOMAIN pending : \A other \in DOMAIN pending : id <= other
  IN {Resolution(pending[oldest].resolve, IF response.ok THEN "ok" ELSE "error", "response")}

\* the line handler: req.resolve(response)
lineHandlerResolved(response) ==
  {Resolution(pending[response.id].resolve, IF response.ok THEN "ok" ELSE "error", "response")}

\* variant: the timeout callback leaves the entry in the pending map
timeoutPendingKept(id) == pending

\* the timeout callback of sendRequest: the pending map afterwards
timeoutPending(id) == MapDelete(pending, id)

\* variant: the handlers leave the worker reference in place
childKept == child

\* the worker reference after an error or close event
childAfterTermination == <<>>

\* ping(): response?.ok === true, on the value sendRequest resolved with
ping(response) == response = "ok"

\* sendRequest(request): ensureStarted, then the pending entry and its timer
sendRequest ==
  /\ Len(requests) < MaxRequests
  /\ child = <<>> => Len(workers) < MaxWorkers
  /\ LET spawn == child = <<>>
         w == IF spawn THEN Len(workers) + 1 ELSE child[1]
         id == Len(requests) + 1
     IN /\ workers' = IF spawn THEN Append(workers, NewWorker) ELSE workers
        /\ child' = <<w>>
        /\ lineReader' = IF spawn THEN <<w>> ELSE lineReader
        /\ requests' = Append(requests, NewRequest)
        /\ pending' = MapSet(pending, id, [resolve |-> id, timer |-> id])
  /\ resolved' = {}
  /\ handled' = <<>>
  /\ UNCHANGED <<diagVars, sample>>

\* lineReader.on('line'): a line of output of worker w
workerLine(w, line) ==
  /\ w \in 1..Len(workers)
  /\ workers[w].readerOpen
  /\ ~workers[w].closed
  /\ line \in Lines
  /\ LET response == parseReflectionResponse(line)
     IN IF response = <<>> \/ response[1].id \notin DOMAIN pending
          THEN /\ UNCHANGED <<pending, requests>>
               /\ resolved' = {}
          ELSE /\ pending' = lineHandlerPending(response[1].id)
               /\ requests' = lineHandlerRequests(response[1])
               /\ resolved' = lineHandlerResolved(response[1])
  /\ handled' = <<[worker |-> w, line |-> line]>>
  /\ UNCHANGED <<child, lineReader, workers>>
  /\ UNCHANGED <<diagVars, sample>>

\* the timeout callback of sendRequest fires
requestTimeout(id) ==
  /\ id \in 1..Len(requests)
  /\ requests[id].timer
  /\ pending' = timeoutPending(id)
  /\ requests' = resolveRequest(clearRequestTimer(requests, id), id)
  /\ resolved' = {Resolution(id, "null", "timeout")}
  /\ handled' = <<>>
  /\ UNCHANGED <<child, lineReader, workers>>
  /\ UNCHANGED <<diagVars, sample>>

\* what the 'error' and the 'close' handler of a spawned worker both do
workerTerminated(ws, reason) ==
  /\ requests' = clearPendingRequests(requests, DOMAIN pending)
  /\ resolved' = clearPendingResolved(reason)
  /\ handled' = <<>>
  /\ pending' = clearPendingMap
  /\ child' = childAfterTermination
  /\ workers' = closeLineReader(ws)
  /\ lineReader' = <<>>

\* spawned.on('error')
workerError(w) ==
  /\ w \in 1..Len(workers)
  /\ ~workers[w].errored
  /\ ~workers[w].closed
  /\ workerTerminated([workers EXCEPT ![w].errored = TRUE], "error")
  /\ UNCHANGED <<diagVars, sample>>

\* spawned.on('close')
workerClose(w) ==
  /\ w \in 1..Len(workers)
  /\ ~workers[w].closed
  /\ workerTerminated([workers EXCEPT ![w].closed = TRUE], "close")
  /\ UNCHANGED <<diagVars, sample>>

\* dispose() of the client
disposeClient ==
  /\ requests' = clearPendingRequests(requests, DOMAIN pending)
  /\ resolved' = clearPendingResolved("dispose")
  /\ handled' = <<>>
  /\ pending' = clearPendingMap
  /\ workers' = LET closed == closeLineReader(workers)
                IN IF child = <<>> THEN closed
                   ELSE [closed EXCEPT ![child[1]].killed = TRUE]
  /\ lineReader' = <<>>
  /\ child' = <<>>
  /\ UNCHANGED <<diagVars, sample>>

(* ------------------------------------------------------------------ *)
(* Specifications                                                     *)
(* ------------------------------------------------------------------ *)

\* the service and the client after construction
ServiceInit ==
  /\ settings = DEFAULT_SETTINGS
  /\ timers = EmptyMap
  /\ armed = EmptyBag
  /\ versions = EmptyMap
  /\ pendingDocuments = EmptyMap
  /\ versionSupportCache = EmptyMap
  /\ tasks = <<>>
  /\ chainRejected = FALSE
  /\ orphaned = {}
  /\ published = NoPub
  /\ logged = {}
  /\ cancelled = {}
  /\ ended = ""
  /\ child = <<>>
  /\ lineReader = <<>>
  /\ pending = EmptyMap
  /\ requests = <<>>
  /\ workers = <<>>
  /\ resolved = {}
  /\ handled = <<>>

Init == ServiceInit /\ sample = <<>>

\* the diagnostics service
Next ==
  \/ \E incoming \in SettingsUpdates : updateSettings(incoming)
  \/ \E uri \in Uris, version \in Versions, trigger \in Triggers : schedule(uri, version, trigger)
  \/ \E document \in Docs : timerFire(document)
  \/ \E uri \in Uris : clear(uri)
  \/ dispose
  \/ \E i \in 1..MaxQueue : startTask(i)
  \/ \E i \in 1..MaxQueue, created \in BOOLEAN, spawnOk \in BOOLEAN : createSnapshot(i, created, spawnOk)
  \/ \E i \in 1..MaxQueue, code \in ExitCodes, versionOutput \in VersionOutputs, spawnOk \in BOOLEAN :
       probeDone(i, code, versionOutput, spawnOk)
  \/ \E i \in 1..MaxQueue : primaryDone(i)
  \/ \E i \in 1..MaxQueue : fallbackDone(i)
  \/ \E i \in 1..MaxQueue : cleanupTempPhpFile(i)

Spec == Init /\ [][Next]_vars

\* the diagnostics service while diagnostics stay enabled and no document is
\* cleared or closed; a schedule call is taken while the queue has room for the
\* task of every armed timer
FairNext ==
  \/ \E incoming \in SettingsUpdates :
       /\ incoming.enableDiagnostics # <<FALSE>>
       /\ updateSettings(incoming)
  \/ \E uri \in Uris, version \in Versions, trigger \in Triggers :
       /\ schedule(uri, version, trigger)
       /\ BagCardinality(armed') + Len(tasks') <= MaxQueue
  \/ \E document \in Docs : timerFire(document)
  \/ \E i \in 1..MaxQueue : startTask(i)
  \/ \E i \in 1..MaxQueue, created \in BOOLEAN, spawnOk \in BOOLEAN : createSnapshot(i, created, spawnOk)
  \/ \E i \in 1..MaxQueue, code \in ExitCodes, versionOutput \in VersionOutputs, spawnOk \in BOOLEAN :
       probeDone(i, code, versionOutput, spawnOk)
  \/ \E i \in 1..MaxQueue : primaryDone(i)
  \/ \E i \in 1..MaxQueue : fallbackDone(i)
  \/ \E i \in 1..MaxQueue : cleanupTempPhpFile(i)

\* a step of the promise chain: the continuation of the task that is running,
\* after an await or after the external process it waits for has ended
ChainStep ==
  \E i \in 1..MaxQueue :
    \/ startTask(i)
    \/ \E created \in BOOLEAN, spawnOk \in BOOLEAN : createSnapshot(i, created, spawnOk)
    \/ \E code \in ExitCodes, versionOutput \in VersionOutputs, spawnOk \in BOOLEAN :
         probeDone(i, code, versionOutput, spawnOk)
    \/ primaryDone(i)
    \/ fallbackDone(i)
    \/ cleanupTempPhpFile(i)

\* the event loop calls the callback of every armed timer and runs every
\* continuation, and every external process that was launched terminates
FairSpec ==
  /\ Init
  /\ [][FairNext]_vars
  /\ \A document \in Docs : WF_vars(timerFire(document))
  /\ WF_vars(ChainStep)

\* the reflection bridge client
BridgeNext ==
  \/ sendRequest
  \/ \E w \in 1..MaxWorkers, line \in Lines : workerLine(w, line)
  \/ \E id \in 1..MaxRequests : requestTimeout(id)
  \/ \E w \in 1..MaxWorkers : workerError(w)
  \/ \E w \in 1..MaxWorkers : workerClose(w)
  \/ disposeClient

BridgeSpec == Init /\ [][BridgeNext]_vars

\* the reflection bridge client on an event loop that runs every armed timer:
\* the callback of setTimeout(..., requestTimeoutMs) is called unless cleared
BridgeFairSpec ==
  BridgeSpec /\ \A id \in 1..MaxRequests : WF_vars(requestTimeout(id))

\* runForDocument from the end of the primary process of a run that is not
\* stale, on every result the process can have
ParseInit ==
  /\ ServiceInit
  /\ sample \in {[r |-> r, editorModeUsed |-> e, outcome |-> <<>>] :
                   r \in ProcessResults, e \in BOOLEAN}

readPrimaryResult ==
  /\ sample.outcome = <<>>
  /\ sample' = [sample EXCEPT !.outcome = <<primaryOutcome(sample.r, sample.editorModeUsed)>>]
  /\ UNCHANGED <<diagVars, bridgeVars>>

ParseNext == readPrimaryResult

ParseSpec == ParseInit /\ [][ParseNext]_vars

\* runForDocument from the end of the saved-file fallback process of a run that
\* is not stale, on every result the process can have
FallbackInit ==
  /\ ServiceInit
  /\ sample \in {[r |-> r, kind |-> <<>>] : r \in ProcessResults}

readFallbackResult ==
  /\ sample.kind = <<>>
  /\ sample' = [sample EXCEPT !.kind = <<fallbackKind(sample.r)>>]
  /\ UNCHANGED <<diagVars, bridgeVars>>

FallbackNext == readFallbackResult

FallbackSpec == FallbackInit /\ [][FallbackNext]_vars

(* ------------------------------------------------------------------ *)
(* The commands of a run                                              *)
(* ------------------------------------------------------------------ *)

\* Array.indexOf, counted from 1: 0 stands for -1
IndexOf(s, x) ==
  IF \E i \in 1..Len(s) : s[i] = x
    THEN CHOOSE i \in 1..Len(s) : s[i] = x /\ \A j \in 1..(i - 1) : s[j] # x
    ELSE 0

\* variant: a leading subcommand token is kept
normalizeRuntimeArgsKeep(runtimeArgs) == runtimeArgs

normalizeRuntimeArgs(runtimeArgs) ==
  IF runtimeArgs = <<>> THEN <<>>
  ELSE IF Head(runtimeArgs) \in {"analyze", "analyse"} THEN Tail(runtimeArgs)
  ELSE runtimeArgs

\* buildPhpstanAnalyzeCommand; in params <<>> stands for an omitted configPath,
\* errorFormat or options, <<x>> for the value x
buildPhpstanAnalyzeCommand(params) ==
  LET runtime == params.resolvedRuntime.runtime
      errorFormat == IF params.errorFormat = <<>> THEN "json" ELSE params.errorFormat[1]
      options == IF params.options = <<>> THEN <<>> ELSE params.options[1]
      normalizedRuntimeArgs == normalizeRuntimeArgs(runtime.args)
      args == normalizedRuntimeArgs
                \o <<"analyze", "--error-format=" \o errorFormat, "--no-progress",
                     "--no-interaction">>
      withConfig == IF params.configPath # <<>> /\ params.configPath[1] # ""
                      THEN args \o <<"-c", params.configPath[1]>>
                      ELSE args
  IN [command |-> IF runtime.kind = "file" THEN runtime.executablePath ELSE runtime.command,
      args |-> withConfig \o options \o <<"--">> \o params.targets,
      cwd |-> params.resolvedRuntime.workingDirectory]

\* the call of buildPhpstanAnalyzeCommand with resolvedRuntime and targets only
AnalyzeParams(resolvedRuntime, targets) ==
  [resolvedRuntime |-> resolvedRuntime, targets |-> targets, configPath |-> <<>>,
   errorFormat |-> <<"json">>, options |-> <<>>]

injectArgsBeforeTargetSeparator(originalArgs, injectedArgs) ==
  IF injectedArgs = <<>> THEN originalArgs
  ELSE LET separatorIndex == IndexOf(originalArgs, "--")
       IN IF separatorIndex = 0 THEN originalArgs \o injectedArgs
          ELSE SubSeq(originalArgs, 1, separatorIndex - 1) \o injectedArgs
                 \o SubSeq(originalArgs, separatorIndex, Len(originalArgs))

\* commandOverride: <<>> stands for null
applyCommandOverride(commandSpec, commandOverride) ==
  IF commandOverride = <<>> THEN commandSpec
  ELSE [command |-> commandOverride[1].command,
        args |-> commandOverride[1].args \o commandSpec.args,
        cwd |-> commandSpec.cwd]

splitByTargetSeparator(args) ==
  LET separatorIndex == IndexOf(args, "--")
  IN IF separatorIndex = 0 THEN [base |-> args, targets |-> <<>>]
     ELSE [base |-> SubSeq(args, 1, separatorIndex - 1),
           targets |-> SubSeq(args, separatorIndex + 1, Len(args))]

\* variant: the snapshot arguments are appended after the target
applyEditorModeArgsAppended(baseCommand, tempFilePath, originalFilePath) ==
  [command |-> baseCommand.command,
   cwd |-> baseCommand.cwd,
   args |-> baseCommand.args \o <<"--tmp-file", tempFilePath, "--instead-of", originalFilePath>>]

applyEditorModeArgs(baseCommand, tempFilePath, originalFilePath) ==
  [command |-> baseCommand.command,
   cwd |-> baseCommand.cwd,
   args |-> splitByTargetSeparator(baseCommand.args).base
              \o <<"--tmp-file", tempFilePath, "--instead-of", originalFilePath,
                   "--", originalFilePath>>]

applyTempFileFallbackArgs(baseCommand, tempFilePath) ==
  [command |-> baseCommand.command,
   cwd |-> baseCommand.cwd,
   args |-> splitByTargetSeparator(baseCommand.args).base \o <<"--", tempFilePath>>]

\* buildAnalyzeCommandForDocument: the command with the extra arguments and the
\* command override, before the snapshot is put in
overriddenCommand(resolvedRuntime, phpstan, filePath) ==
  LET baseCommand == buildPhpstanAnalyzeCommand(AnalyzeParams(resolvedRuntime, <<filePath>>))
      extraArgsCommand ==
        [command |-> baseCommand.command,
         cwd |-> baseCommand.cwd,
         args |-> injectArgsBeforeTargetSeparator(baseCommand.args, phpstan.extraArgs)]
  IN applyCommandOverride(extraArgsCommand, phpstan.commandOverride)

\* buildAnalyzeCommandForDocument, given the snapshot path and the outcome of
\* detectEditorMode (mode)
buildAnalyzeCommandForDocument(resolvedRuntime, phpstan, filePath, tempFilePath, mode) ==
  LET command == overriddenCommand(resolvedRuntime, phpstan, filePath)
  IN IF mode
       THEN applyEditorModeArgs(command, tempFilePath, filePath)
       ELSE applyTempFileFallbackArgs(command, tempFilePath)

buildAnalyzeCommandForSavedFile(resolvedRuntime, phpstan, filePath) ==
  LET baseCommand == buildPhpstanAnalyzeCommand(AnalyzeParams(resolvedRuntime, <<filePath>>))
      extraArgsCommand ==
        [command |-> baseCommand.command,
         cwd |-> baseCommand.cwd,
         args |-> injectArgsBeforeTargetSeparator(baseCommand.args, phpstan.extraArgs)]
  IN applyCommandOverride(extraArgsCommand, phpstan.commandOverride)

\* mergeSettings, for settings.phpstan; in the update <<>> stands for an omitted
\* key (for extraArgs: a value that is no array)
mergePhpstanSettings(base, incoming) ==
  [extraArgs |-> IF incoming.extraArgs = <<>> THEN base.extraArgs ELSE incoming.extraArgs[1],
   commandOverride |-> IF incoming.commandOverride = <<>> THEN base.commandOverride
                       ELSE incoming.commandOverride[1]]

FilePath == "/p/a.php"
TempFilePath == "/tmp/phpstan-ls-lite-1/buffer.php"

\* the runtimes that detection yields: a command or an executable file, with the
\* arguments that follow it in scripts.phpstan
Runtimes ==
  {[kind |-> "command", command |-> "phpstan", args |-> <<>>],
   [kind |-> "file", executablePath |-> "/p/vendor/bin/phpstan", args |-> <<>>],
   [kind |-> "file", executablePath |-> "/p/vendor/bin/phpstan",
    args |-> <<"--memory-limit=1G">>],
   [kind |-> "command", command |-> "phpstan", args |-> <<"analyse", "--memory-limit=1G">>]}
ResolvedRuntimes == {[runtime |-> rt, workingDirectory |-> "/p"] : rt \in Runtimes}
ExtraArgs == {<<>>, <<"--level=9">>, <<"-c", "phpstan.neon">>}
CommandOverrides == {<<>>, <<[command |-> "docker", args |-> <<"exec", "app", "phpstan">>]>>}
PhpstanSettings == [extraArgs : ExtraArgs, commandOverride : CommandOverrides]
PhpstanSettingsUpdates ==
  [extraArgs : {<<>>} \cup {<<e>> : e \in ExtraArgs},
   commandOverride : {<<>>} \cup {<<o>> : o \in CommandOverrides}]

\* one run of runForDocument, as far as its commands go: settings.phpstan is
\* read when the primary command is built (pc "build") and again when the
\* fallback command is built, after the primary process has ended (pc "primary")
RunInit ==
  /\ ServiceInit
  /\ sample \in {[pc |-> "build", phpstan |-> ps, resolvedRuntime |-> rt,
                   editorModeSupported |-> e, primary |-> <<>>, fallback |-> <<>>] :
                   ps \in PhpstanSettings, rt \in ResolvedRuntimes, e \in BOOLEAN}

\* updateSettings while the run is under way
updatePhpstanSettings(incoming) ==
  /\ sample.pc \in {"build", "primary"}
  /\ sample' = [sample EXCEPT !.phpstan = mergePhpstanSettings(@, incoming)]
  /\ UNCHANGED <<diagVars, bridgeVars>>

buildPrimaryCommand ==
  /\ sample.pc = "build"
  /\ sample' = [sample EXCEPT
                  !.pc = "primary",
                  !.primary = <<buildAnalyzeCommandForDocument(
                                  sample.resolvedRuntime, sample.phpstan, FilePath,
                                  TempFilePath, sample.editorModeSupported)>>]
  /\ UNCHANGED <<diagVars, bridgeVars>>

\* the primary process has ended with a syntax-error signal and no diagnostics
buildFallbackCommand ==
  /\ sample.pc = "primary"
  /\ sample' = [sample EXCEPT
                  !.pc = "fallback",
                  !.fallback = <<buildAnalyzeCommandForSavedFile(
                                   sample.resolvedRuntime, sample.phpstan, FilePath)>>]
  /\ UNCHANGED <<diagVars, bridgeVars>>

RunNext ==
  \/ \E incoming \in PhpstanSettingsUpdates : updatePhpstanSettings(incoming)
  \/ buildPrimaryCommand
  \/ buildFallbackCommand

RunSpec == RunInit /\ [][RunNext]_vars

(* ------------------------------------------------------------------ *)
(* The version check on the text of a version output                  *)
(* ------------------------------------------------------------------ *)

RECURSIVE FormatNumber(_)
FormatNumber(n) ==
  IF n < 10 THEN <<DigitChars[n + 1]>>
  ELSE FormatNumber(n \div 10) \o <<DigitChars[(n % 10) + 1]>>

FormatToken(t) ==
  FormatNumber(t[1]) \o <<".">> \o FormatNumber(t[2]) \o <<".">> \o FormatNumber(t[3])

RECURSIVE FormatTokens(_)
FormatTokens(ts) ==
  IF ts = <<>> THEN <<>> ELSE <<" ">> \o FormatToken(Head(ts)) \o FormatTokens(Tail(ts))

Majors == {0, 1, 2, 3, 10}
Minors == {0, 1, 2, 9, 12, 13}
Patches == {0, 16, 17, 27, 100}
Tokens == {<<major, minor, patch>> : major \in Majors, minor \in Minors, patch \in Patches}
\* the major.minor.patch tokens of a text, in their order
TokenLists ==
  {<<>>} \cup {<<t>> : t \in Tokens}
         \cup {<<f, t>> : f \in {<<0, 9, 9>>, <<1, 12, 27>>, <<3, 0, 0>>},
                          t \in {<<0, 1, 0>>, <<2, 1, 17>>}}
\* what precedes the tokens: a name, a name and an incomplete version
Leads == {<<"P", "H", "P", "S", "t", "a", "n">>,
          <<"P", "H", "P", "S", "t", "a", "n", " ", "2", ".", "1">>,
          <<"v", "1", ".", "1", "2", ".", "x">>}
\* what follows them: nothing, or the marker of a development build
Trails == {<<>>, <<" ", "2", ".", "1", ".", "x">> \o DevMarker \o <<"a", "1", "b", "2">>}

VersionText(lead, tokens, trail) == lead \o FormatTokens(tokens) \o trail

VersionInit ==
  /\ ServiceInit
  /\ sample \in {[tokens |-> ts, dev |-> trail # <<>>, text |-> VersionText(lead, ts, trail),
                   supported |-> <<>>] :
                   lead \in Leads, ts \in TokenLists, trail \in Trails}

checkVersionOutput ==
  /\ sample.supported = <<>>
  /\ sample' = [sample EXCEPT
                  !.supported = <<isPhpstanEditorModeSupported(readVersionOutput(sample.text))>>]
  /\ UNCHANGED <<diagVars, bridgeVars>>

VersionNext == checkVersionOutput

VersionSpec == VersionInit /\ [][VersionNext]_vars

(* ------------------------------------------------------------------ *)
(* The command of a document under any settings                       *)
(* ------------------------------------------------------------------ *)

\* extra arguments and override arguments with any tokens, the separator included
AnyExtraArgs == ExtraArgs \cup {<<"--">>, <<"--level=9", "--", "/p/b.php">>}
AnyCommandOverrides ==
  CommandOverrides \cup {<<[command |-> "docker", args |-> <<"exec", "app", "--", "phpstan">>]>>}
AnyPhpstanSettings == [extraArgs : AnyExtraArgs, commandOverride : AnyCommandOverrides]

CommandInit ==
  /\ ServiceInit
  /\ sample \in {[phpstan |-> ps, resolvedRuntime |-> rt, editorModeSupported |-> e,
                   command |-> <<>>] :
                   ps \in AnyPhpstanSettings, rt \in ResolvedRuntimes, e \in BOOLEAN}

buildDocumentCommand ==
  /\ sample.command = <<>>
  /\ sample' = [sample EXCEPT
                  !.command = <<buildAnalyzeCommandForDocument(
                                  sample.resolvedRuntime, sample.phpstan, FilePath,
                                  TempFilePath, sample.editorModeSupported)>>]
  /\ UNCHANGED <<diagVars, bridgeVars>>

CommandNext == buildDocumentCommand

CommandSpec == CommandInit /\ [][CommandNext]_vars

(* ------------------------------------------------------------------ *)
(* buildPhpstanAnalyzeCommand on its parameters                       *)
(* ------------------------------------------------------------------ *)

BuildRuntimes ==
  Runtimes \cup
  {[kind |-> "command", command |-> "phpstan", args |-> <<"analyze">>],
   [kind |-> "command", command |-> "phpstan", args |-> <<"analyse", "analyse", "-v">>],
   [kind |-> "command", command |-> "phpstan", args |-> <<"-v", "analyse">>]}
BuildTargets ==
  {<<>>, <<"/p/a.php">>, <<"/p/a.php", "/p/b.php">>, <<"/p/b.php", "/p/a.php">>,
   <<"/p/a.php", "/p/a.php">>}
BuildParams ==
  [resolvedRuntime : {[runtime |-> rt, workingDirectory |-> wd] :
                        rt \in BuildRuntimes, wd \in {"/p", "/p/sub"}},
   targets : BuildTargets,
   configPath : {<<>>, <<"">>, <<"phpstan.neon">>},
   errorFormat : {<<>>, <<"json">>, <<"raw">>},
   options : {<<>>, <<<<>>>>, <<<<"--memory-limit=2G">>>>, <<<<"--debug", "-v">>>>}]

BuildInit ==
  /\ ServiceInit
  /\ sample \in {[params |-> params, command |-> <<>>] : params \in BuildParams}

buildCommand ==
  /\ sample.command = <<>>
  /\ sample' = [sample EXCEPT !.command = <<buildPhpstanAnalyzeCommand(sample.params)>>]
  /\ UNCHANGED <<diagVars, bridgeVars>>

BuildNext == buildCommand

BuildSpec == BuildInit /\ [][BuildNext]_vars

(* ------------------------------------------------------------------ *)
(* The command line written to the log                                *)
(* ------------------------------------------------------------------ *)

\* texts are sequences of characters
UpperChars == <<"A", "B", "C", "D", "E", "F", "G", "H", "I", "J", "K", "L", "M", "N", "O", "P", "Q", "R", "S", "T", "U", "V", "W", "X", "Y", "Z">>
LowerChars == <<"a", "b", "c", "d", "e", "f", "g", "h", "i", "j", "k", "l", "m", "n", "o", "p", "q", "r", "s", "t", "u", "v", "w", "x", "y", "z">>

\* String.toLowerCase
toLowerCase(text) ==
  [i \in 1..Len(text) |->
     IF \E k \in 1..Len(UpperChars) : UpperChars[k] = text[i]
       THEN LowerChars[CHOOSE k \in 1..Len(UpperChars) : UpperChars[k] = text[i]]
       ELSE text[i]]

Mask == <<"*", "*", "*">>

sensitiveKeys == {<<"t", "o", "k", "e", "n">>, <<"p", "a", "s", "s", "w", "o", "r", "d">>, <<"s", "e", "c", "r", "e", "t">>, <<"a", "p", "i", "k", "e", "y">>, <<"a", "p", "i", "-", "k", "e", "y">>}
sensitiveFlags == {<<"-", "-", "t", "o", "k", "e", "n">>, <<"-", "-", "p", "a", "s", "s", "w", "o", "r", "d">>, <<"-", "-", "s", "e", "c", "r", "e", "t">>, <<"-", "-", "a", "p", "i", "-", "k", "e", "y">>, <<"-", "-", "a", "p", "i", "k", "e", "y">>}

maskArgumentToken(token) ==
  LET eqIndex == IndexOf(token, "=")
  IN IF eqIndex = 0 THEN token
     ELSE LET key == toLowerCase(SubSeq(token, 1, eqIndex - 1))
          IN IF \E sensitive \in sensitiveKeys : Includes(key, sensitive)
               THEN SubSeq(token, 1, eqIndex) \o Mask
               ELSE token

\* maskCommandArgs: the loop, from the state maskNext
RECURSIVE maskCommandArgsFrom(_, _)
maskCommandArgsFrom(args, maskNext) ==
  IF args = <<>> THEN <<>>
  ELSE IF maskNext THEN <<Mask>> \o maskCommandArgsFrom(Tail(args), FALSE)
  ELSE IF toLowerCase(Head(args)) \in sensitiveFlags
    THEN <<Head(args)>> \o maskCommandArgsFrom(Tail(args), TRUE)
  ELSE <<maskArgumentToken(Head(args))>> \o maskCommandArgsFrom(Tail(args), FALSE)

maskCommandArgs(args) == maskCommandArgsFrom(args, FALSE)

\* Array.join(' ')
RECURSIVE JoinSpace(_)
JoinSpace(texts) ==
  IF texts = <<>> THEN <<>>
  ELSE IF Len(texts) = 1 THEN texts[1]
  ELSE texts[1] \o <<" ">> \o JoinSpace(Tail(texts))

formatCommandForLog(command, args) == JoinSpace(<<command>> \o maskCommandArgs(args))

LogCommand == <<"p", "h", "p", "s", "t", "a", "n">>
LogArguments ==
  {<<"-", "-", "t", "o", "k", "e", "n">>,
   <<"-", "-", "A", "P", "I", "-", "K", "E", "Y">>,
   <<"a", "b", "c", "1", "2", "3">>,
   <<"-", "-", "t", "o", "k", "e", "n", "=", "x", "y", "z">>,
   <<"-", "-", "P", "a", "s", "s", "w", "o", "r", "d", "=", "p", "=", "q">>,
   <<"-", "-", "m", "e", "m", "o", "r", "y", "-", "l", "i", "m", "i", "t", "=", "1", "G">>,
   <<"-", "-", "m", "y", "-", "s", "e", "c", "r", "e", "t", "-", "f", "i", "l", "e", "=", "s">>,
   <<"a", "n", "a", "l", "y", "z", "e">>}
MaxLogArgs == 3
LogArgLists ==
  UNION {[1..n -> LogArguments] : n \in 0..MaxLogArgs}

LogInit ==
  /\ ServiceInit
  /\ sample \in {[args |-> args, text |-> <<>>] : args \in LogArgLists}

logCommand ==
  /\ sample.text = <<>>
  /\ sample' = [sample EXCEPT !.text = formatCommandForLog(LogCommand, sample.args)]
  /\ UNCHANGED <<diagVars, bridgeVars>>

LogNext == logCommand

LogSpec == LogInit /\ [][LogNext]_vars

\* the arguments of two command lines that are compared: flags, secrets and
\* key=value arguments with the same key and different values
PairArguments ==
  {<<"-", "-", "t", "o", "k", "e", "n">>,
   <<"-", "-", "A", "P", "I", "-", "K", "E", "Y">>,
   <<"a", "b", "c", "1", "2", "3">>,
   <<"h", "u", "n", "t", "e", "r", "2">>,
   <<"-", "-", "t", "o", "k", "e", "n", "=", "x", "y", "z">>,
   <<"-", "-", "t", "o", "k", "e", "n", "=", "a", "=", "b">>,
   <<"a", "n", "a", "l", "y", "z", "e">>}
PairArgLists ==
  UNION {[1..n -> PairArguments] : n \in 0..MaxLogArgs}

\* the part of a key=value argument up to and including its first '='
KeyPart(token) == SubSeq(token, 1, IndexOf(token, "="))

\* two argument lists that differ in secret values only
SameButSecrets(args, other) ==
  /\ Len(args) = Len(other)
  /\ \A i \in 1..Len(args) :
       \/ args[i] = other[i]
       \/ /\ i > 1
          /\ toLowerCase(args[i - 1]) \in sensitiveFlags
          /\ toLowerCase(other[i - 1]) \in sensitiveFlags
       \/ /\ IndexOf(args[i], "=") > 0
          /\ IndexOf(other[i], "=") > 0
          /\ KeyPart(args[i]) = KeyPart(other[i])
          /\ \E name \in sensitiveKeys : Includes(toLowerCase(KeyPart(args[i])), name)

PairInit ==
  /\ ServiceInit
  /\ sample \in UNION {{[args |-> args, other |-> other, text |-> <<>>, otherText |-> <<>>] :
                            other \in {b \in PairArgLists : b # args /\ SameButSecrets(args, b)}} :
                         args \in PairArgLists}

\* the two command lines are written to the log
logCommands ==
  /\ sample.text = <<>>
  /\ sample' = [sample EXCEPT !.text = formatCommandForLog(LogCommand, sample.args),
                              !.otherText = formatCommandForLog(LogCommand, sample.other)]
  /\ UNCHANGED <<diagVars, bridgeVars>>

PairNext == logCommands

PairSpec == PairInit /\ [][PairNext]_vars

(* ------------------------------------------------------------------ *)
(* runProcess: one child process and the promise of its result        *)
(* ------------------------------------------------------------------ *)

MaxChunks == 2
Chunks == {"a", "b"}
ErrorText == "Error: spawn"

\* a promise is settled by the first resolve or reject only
PendingPromise == [state |-> "pending", value |-> <<>>]
resolvePromise(promise, value) ==
  IF promise.state = "pending" THEN [state |-> "resolved", value |-> <<value>>] ELSE promise
rejectPromise(promise) ==
  IF promise.state = "pending" THEN [state |-> "rejected", value |-> <<>>] ELSE promise

\* runProcess before the executor runs; events lists the events of the child
\* in their order, each with the output captured when it occurred
ProcessInit ==
  /\ ServiceInit
  /\ sample = [pc |-> "new", stdout |-> <<>>, stderr |-> <<>>, events |-> <<>>,
               promise |-> PendingPromise]

\* the executor: spawn either returns the child or throws, and a fault inside
\* the executor rejects the promise
spawnChild(throws) ==
  /\ sample.pc = "new"
  /\ sample' = IF throws
                 THEN [sample EXCEPT !.pc = "failed", !.promise = rejectPromise(@)]
                 ELSE [sample EXCEPT !.pc = "spawned"]
  /\ UNCHANGED <<diagVars, bridgeVars>>

StreamsOpen ==
  /\ sample.pc = "spawned"
  /\ \A i \in 1..Len(sample.events) : sample.events[i].kind # "close"

stdoutData(chunk) ==
  /\ StreamsOpen
  /\ Len(sample.stdout) < MaxChunks
  /\ sample' = [sample EXCEPT !.stdout = Append(@, chunk)]
  /\ UNCHANGED <<diagVars, bridgeVars>>

stderrData(chunk) ==
  /\ StreamsOpen
  /\ Len(sample.stderr) < MaxChunks
  /\ sample' = [sample EXCEPT !.stderr = Append(@, chunk)]
  /\ UNCHANGED <<diagVars, bridgeVars>>

ProcessEvent(kind, code) ==
  [kind |-> kind, code |-> code, stdout |-> sample.stdout, stderr |-> sample.stderr]

\* child.on('close')
childClose(code) ==
  /\ StreamsOpen
  /\ sample' = [sample EXCEPT
                  !.events = Append(@, ProcessEvent("close", code)),
                  !.promise = resolvePromise(@, [code |-> code, stdout |-> sample.stdout,
                                                 stderr |-> sample.stderr])]
  /\ UNCHANGED <<diagVars, bridgeVars>>

\* child.on('error')
childError ==
  /\ sample.pc = "spawned"
  /\ \A i \in 1..Len(sample.events) : sample.events[i].kind # "error"
  /\ sample' = [sample EXCEPT
                  !.events = Append(@, ProcessEvent("error", -1)),
                  !.promise = resolvePromise(@, [code |-> -1, stdout |-> sample.stdout,
                                                 stderr |-> sample.stderr \o <<"\n", ErrorText>>])]
  /\ UNCHANGED <<diagVars, bridgeVars>>

ProcessNext ==
  \/ \E throws \in BOOLEAN : spawnChild(throws)
  \/ \E chunk \in Chunks : stdoutData(chunk)
  \/ \E chunk \in Chunks : stderrData(chunk)
  \/ \E code \in {0, 1} : childClose(code)
  \/ childError

ProcessSpec == ProcessInit /\ [][ProcessNext]_vars

(* ------------------------------------------------------------------ *)
(* extractDiagnosticsForFile on the output of the tool                *)
(* ------------------------------------------------------------------ *)

\* JSON values, and undefined for what a property access may yield; an object
\* is the sequence of its <<key, value>> pairs
JNull == [t |-> "null"]
Undefined == [t |-> "undefined"]
JBool(b) == [t |-> "bool", b |-> b]
JNum(n) == [t |-> "num", n |-> n]
JStr(x) == [t |-> "str", s |-> x]
JArr(values) == [t |-> "arr", a |-> values]
JObj(pairs) == [t |-> "obj", o |-> pairs]

\* !value
IsFalsy(value) ==
  \/ value.t \in {"null", "undefined"}
  \/ value.t = "bool" /\ ~value.b
  \/ value.t = "num" /\ value.n = 0
  \/ value.t = "str" /\ value.s = ""

\* typeof value === 'object'
TypeofObject(value) == value.t \in {"null", "arr", "obj"}

\* value.key for a key that is no array index or built-in; a property access on
\* null or undefined is a fault, which the callers test with IsNullish first
IsNullish(value) == value.t \in {"null", "undefined"}
Get(value, key) ==
  IF value.t = "obj" /\ \E i \in 1..Len(value.o) : value.o[i][1] = key
    THEN value.o[CHOOSE i \in 1..Len(value.o) :
                   value.o[i][1] = key /\ \A j \in (i + 1)..Len(value.o) : value.o[j][1] # key][2]
    ELSE Undefined

IndexKeys == <<"0", "1", "2">>
\* Object.entries (of strings only the empty one occurs here)
ObjectEntries(value) ==
  IF value.t = "obj" THEN value.o
  ELSE IF value.t = "arr" THEN [i \in 1..Len(value.a) |-> <<IndexKeys[i], value.a[i]>>]
  ELSE <<>>

\* path.isAbsolute, path.resolve(cwd, filePath) and path.normalize on the paths
\* that occur, with cwd /p
isAbsolute(filePath) == filePath \in {"/p/a.php", "/p/./a.php", "/p/b.php"}
resolvePath(cwd, filePath) ==
  IF isAbsolute(filePath) THEN filePath
  ELSE IF filePath = "a.php" THEN "/p/a.php"
  ELSE IF filePath = "0" THEN "/p/0"
  ELSE "/p"
normalizePath(value) == IF value = "/p/./a.php" THEN "/p/a.php" ELSE value

\* normalizeFileEntries: the loop over Object.entries(files), into the map
RECURSIVE normalizeEntriesInto(_, _, _)
normalizeEntriesInto(map, entries, cwd) ==
  IF entries = <<>> THEN map
  ELSE LET filePath == Head(entries)[1]
           normalized == IF isAbsolute(filePath) THEN normalizePath(filePath)
                         ELSE normalizePath(resolvePath(cwd, filePath))
       IN normalizeEntriesInto(MapSet(map, normalized, Head(entries)[2]), Tail(entries), cwd)

normalizeFileEntries(output, cwd) ==
  LET files == IF IsNullish(Get(output, "files")) THEN JObj(<<>>) ELSE Get(output, "files")
  IN normalizeEntriesInto(EmptyMap, ObjectEntries(files), cwd)

\* variant: the line of the message is taken as it is
lineOfRaw(rawLine) == rawLine

\* toDiagnostic: Math.max(0, rawLine - 1)
lineOf(rawLine) == IF rawLine - 1 > 0 THEN rawLine - 1 ELSE 0

\* toDiagnostic: <<>> stands for null; the message is the text and its notes
toDiagnostic(messageEntry) ==
  LET message == Get(messageEntry, "message")
      identifier == Get(messageEntry, "identifier")
      tip == Get(messageEntry, "tip")
  IN IF message.t # "str" \/ message.s = "" THEN <<>>
     ELSE LET rawLine == IF Get(messageEntry, "line").t = "num"
                           THEN Get(messageEntry, "line").n ELSE 1
              line == lineOf(rawLine)
              notes == (IF identifier.t = "str" /\ identifier.s # ""
                          THEN <<"identifier: " \o identifier.s>> ELSE <<>>)
                       \o (IF tip.t = "str" /\ tip.s # "" THEN <<"tip: " \o tip.s>> ELSE <<>>)
          IN <<[severity |-> 1,
                range |-> [start |-> [line |-> line, character |-> 0],
                           end |-> [line |-> line, character |-> 1]],
                message |-> <<message.s>> \o notes,
                source |-> "phpstan"]>>

\* variant: entries that are no objects are passed on to toDiagnostic
skipsEntryNever(entry) == FALSE

\* extractDiagnosticsForFile: !entry || typeof entry !== 'object'
skipsEntry(entry) == IsFalsy(entry) \/ ~TypeofObject(entry)

NoFault(diagnostics) == [fault |-> FALSE, diagnostics |-> diagnostics]
Fault == [fault |-> TRUE, diagnostics |-> <<>>]

\* extractDiagnosticsForFile: the loop over fileEntry.messages
RECURSIVE diagnosticsOfMessages(_)
diagnosticsOfMessages(messages) ==
  IF messages = <<>> THEN NoFault(<<>>)
  ELSE LET entry == Head(messages)
           rest == diagnosticsOfMessages(Tail(messages))
       IN IF skipsEntry(entry) THEN rest
          ELSE IF IsNullish(entry) THEN Fault
          ELSE IF rest.fault THEN Fault
          ELSE NoFault(toDiagnostic(entry) \o rest.diagnostics)

\* outputText is [json |-> FALSE], on which JSON.parse throws, or
\* [json |-> TRUE, value |-> v], which it parses to v
extractDiagnosticsForFile(outputText, targetFilePath, cwd) ==
  IF ~outputText.json THEN NoFault(<<>>)
  ELSE LET parsed == outputText.value
       IN IF IsFalsy(parsed) \/ ~TypeofObject(parsed) THEN NoFault(<<>>)
          ELSE LET normalizedTarget == normalizePath(targetFilePath)
                   entries == normalizeFileEntries(parsed, cwd)
                   fileEntry == IF normalizedTarget \in DOMAIN entries
                                  THEN entries[normalizedTarget] ELSE Undefined
               IN IF IsFalsy(fileEntry) \/ Get(fileEntry, "messages").t # "arr"
                    THEN NoFault(<<>>)
                    ELSE diagnosticsOfMessages(Get(fileEntry, "messages").a)

\* the entries of a messages array: well-formed messages with a line that is a
\* number, missing or a string, and entries that are to be skipped
GoodMessages ==
  {JObj(<<<<"message", JStr("m1")>>, <<"line", JNum(3)>>>>),
   JObj(<<<<"message", JStr("m2")>>>>),
   JObj(<<<<"message", JStr("m3")>>, <<"line", JNum(0)>>>>),
   JObj(<<<<"message", JStr("m4")>>, <<"line", JNum(-2)>>>>),
   JObj(<<<<"message", JStr("m5")>>, <<"line", JStr("7")>>>>),
   JObj(<<<<"message", JStr("m6")>>, <<"line", JNum(1)>>, <<"identifier", JStr("id")>>,
          <<"tip", JStr("t")>>>>)}
BadMessages ==
  {JObj(<<<<"message", JStr("")>>, <<"line", JNum(2)>>>>),
   JObj(<<<<"line", JNum(2)>>>>),
   JObj(<<<<"message", JNum(5)>>>>),
   JNull, JNum(7), JStr("x"), JArr(<<>>)}
MaxMessages == 2
MessageLists == UNION {[1..n -> GoodMessages \cup BadMessages] : n \in 0..MaxMessages}

TargetFilePath == "/p/a.php"
Cwd == "/p"
OtherEntry == JObj(<<<<"messages", JArr(<<JObj(<<<<"message", JStr("other")>>>>)>>)>>>>)

\* a well-formed output: the target under one of its spellings, after another file
WellFormedOutput(key, messages) ==
  [json |-> TRUE,
   value |-> JObj(<<<<"totals", JObj(<<<<"errors", JNum(0)>>>>)>>,
                    <<"files", JObj(<<<<"/p/b.php", OtherEntry>>,
                                      <<key, JObj(<<<<"messages", JArr(messages)>>>>)>>>>)>>>>)]

FilesOutput(files) == [json |-> TRUE, value |-> JObj(<<<<"files", files>>>>)]

\* outputs that are no well-formed result for the target
MalformedOutputs ==
  {[json |-> FALSE]}
  \cup {[json |-> TRUE, value |-> v] :
          v \in {JNull, JNum(0), JNum(5), JStr(""), JStr("x"), JBool(TRUE), JBool(FALSE),
                 JArr(<<>>), JArr(<<OtherEntry>>), JObj(<<>>),
                 JObj(<<<<"errors", JArr(<<>>)>>>>)}}
  \cup {FilesOutput(files) :
          files \in {JNull, JNum(5), JStr(""), JBool(TRUE), JArr(<<>>), JArr(<<OtherEntry>>),
                     JObj(<<>>), JObj(<<<<"/p/b.php", OtherEntry>>>>)}}
  \cup {FilesOutput(JObj(<<<<"/p/a.php", entry>>>>)) :
          entry \in {JNull, JNum(0), JNum(5), JStr("x"), JBool(TRUE), JArr(<<>>), JObj(<<>>),
                     JObj(<<<<"messages", JNull>>>>),
                     JObj(<<<<"messages", JStr("x")>>>>),
                     JObj(<<<<"messages", JObj(<<>>)>>>>)}}

ExtractInit ==
  /\ ServiceInit
  /\ sample \in
       {[wellFormed |-> TRUE, messages |-> messages,
         outputText |-> WellFormedOutput(key, messages), result |-> <<>>] :
          key \in {"/p/a.php", "a.php", "/p/./a.php"}, messages \in MessageLists}
       \cup {[wellFormed |-> FALSE, messages |-> <<>>, outputText |-> outputText,
              result |-> <<>>] : outputText \in MalformedOutputs}

extractForFile ==
  /\ sample.result = <<>>
  /\ sample' = [sample EXCEPT
                  !.result = <<extractDiagnosticsForFile(sample.outputText, TargetFilePath, Cwd)>>]
  /\ UNCHANGED <<diagVars, bridgeVars>>

ExtractNext == extractForFile

ExtractSpec == ExtractInit /\ [][ExtractNext]_vars

(* ------------------------------------------------------------------ *)
(* detectPhpstanRuntimeFromComposerJsonPath                           *)
(* ------------------------------------------------------------------ *)

\* most entries of an array under scripts.phpstan
MaxScripts == 2

\* a path, and a word of a script, is the sequence of its parts between '/':
\* /p/vendor is <<"", "p", "vendor">>, ./tools/phpstan is <<".", "tools",
\* "phpstan">>, the empty string is <<"">>; a script is the sequence of its
\* words, a separator of commands being a word
ComposerDir == <<"", "p">>

\* path.isAbsolute
pathIsAbsolute(parts) == Len(parts) >= 2 /\ parts[1] = ""

\* the normalisation of path.resolve and path.join, below the root
RECURSIVE normalizeParts(_, _)
normalizeParts(done, rest) ==
  IF rest = <<>> THEN done
  ELSE IF Head(rest) \in {"", "."} THEN normalizeParts(done, Tail(rest))
  ELSE IF Head(rest) = ".."
    THEN normalizeParts(IF Len(done) > 1 THEN SubSeq(done, 1, Len(done) - 1) ELSE done, Tail(rest))
  ELSE normalizeParts(Append(done, Head(rest)), Tail(rest))

\* path.resolve(directory, parts), for an absolute directory
pathResolve(directory, parts) ==
  IF pathIsAbsolute(parts) THEN normalizeParts(<<"">>, Tail(parts))
  ELSE normalizeParts(<<"">>, Tail(directory) \o parts)

\* path.join(directory, ...parts), for an absolute directory
pathJoin(directory, parts) == normalizeParts(<<"">>, Tail(directory) \o parts)

\* path.basename
pathBasename(parts) == parts[Len(parts)]

\* fileExists: fs.stat(filePath) succeeds and isFile()
fileExists(fs, filePath) == filePath \in fs.files

\* isPathLike: the token has a '/' or starts with '.', or is absolute
isPathLike(token) == Len(token) > 1 \/ token[1] \in {".", ".."} \/ pathIsAbsolute(token)

\* normalizeArgs
normalizeArgs(args) == SelectSeq(args, LAMBDA arg : arg # <<"">>)

\* the separators splitScriptSegments splits at
Separators == {<<"&&">>, <<"||">>, <<"|">>, <<";">>}

\* splitScriptSegments: the segments between the separators that are not empty
RECURSIVE splitSegmentsFrom(_, _, _)
splitSegmentsFrom(segments, current, words) ==
  LET closed == IF current = <<>> THEN segments ELSE Append(segments, current)
  IN IF words = <<>> THEN closed
     ELSE IF Head(words) \in Separators THEN splitSegmentsFrom(closed, <<>>, Tail(words))
     ELSE splitSegmentsFrom(segments, Append(current, Head(words)), Tail(words))

splitScriptSegments(command) == splitSegmentsFrom(<<>>, <<>>, command)

\* looksLikePhpstanToken, on the lower-case base names that occur
looksLikePhpstanToken(token) ==
  \/ pathBasename(token) \in {"phpstan", "phpstan.phar"}
  \/ pathBasename(token) \in {"phpstan-wrapper"}

\* a runtime found: <<>> stands for null
CommandRuntime(command, args, source) ==
  <<[kind |-> "command", command |-> command, args |-> args, source |-> source]>>
FileRuntime(executablePath, args, source) ==
  <<[kind |-> "file", executablePath |-> executablePath, args |-> args, source |-> source]>>

\* detectFromScriptsPhpstan: the loop over the tokens of a segment, from token i
RECURSIVE detectInTokens(_, _, _, _)
detectInTokens(fs, composerDir, tokens, i) ==
  IF i > Len(tokens) THEN <<>>
  ELSE LET token == tokens[i]
           args == normalizeArgs(SubSeq(tokens, i + 1, Len(tokens)))
           resolvedPath == IF pathIsAbsolute(token) THEN token ELSE pathResolve(composerDir, token)
       IN IF ~looksLikePhpstanToken(token) THEN detectInTokens(fs, composerDir, tokens, i + 1)
          ELSE IF isPathLike(token)
            THEN IF fileExists(fs, resolvedPath)
                   THEN FileRuntime(resolvedPath, args, "scripts.phpstan")
                   ELSE detectInTokens(fs, composerDir, tokens, i + 1)
          ELSE CommandRuntime(token, args, "scripts.phpstan")

\* detectFromScriptsPhpstan: the loop over the segments
RECURSIVE detectInSegments(_, _, _)
detectInSegments(fs, composerDir, segments) ==
  IF segments = <<>> THEN <<>>
  ELSE LET found == detectInTokens(fs, composerDir, Head(segments), 1)
       IN IF found # <<>> THEN found
          ELSE detectInSegments(fs, composerDir, Tail(segments))

\* the segments of all the commands, in order
RECURSIVE segmentsOf(_)
segmentsOf(commands) ==
  IF commands = <<>> THEN <<>>
  ELSE splitScriptSegments(Head(commands)) \o segmentsOf(Tail(commands))

detectFromScriptsPhpstan(fs, composerDir, scriptValue) ==
  LET strings == IF scriptValue.t = "arr"
                   THEN SelectSeq(scriptValue.a, LAMBDA entry : entry.t = "str")
                   ELSE <<>>
      commands == IF scriptValue.t = "str" THEN <<scriptValue.s>>
                  ELSE [i \in 1..Len(strings) |-> strings[i].s]
  IN detectInSegments(fs, composerDir, segmentsOf(commands))

detectFromVendorDir(fs, composerDir, vendorDirRaw) ==
  IF vendorDirRaw.t # "str" THEN <<>>
  ELSE IF vendorDirRaw.s = <<"">> THEN <<>>
  ELSE LET vendorDir == IF pathIsAbsolute(vendorDirRaw.s) THEN vendorDirRaw.s
                        ELSE pathResolve(composerDir, vendorDirRaw.s)
           phpstanPath == pathJoin(vendorDir, <<"bin", "phpstan">>)
       IN IF ~fileExists(fs, phpstanPath) THEN <<>>
          ELSE FileRuntime(phpstanPath, <<>>, "config.vendor-dir")

detectFromDefaultVendorDir(fs, composerDir) ==
  LET phpstanPath == pathJoin(composerDir, <<"vendor", "bin", "phpstan">>)
  IN IF ~fileExists(fs, phpstanPath) THEN <<>>
     ELSE FileRuntime(phpstanPath, <<>>, "default-vendor-dir")

detectFromBamarniPlugin(fs, composerDir, composerJson) ==
  LET allowPlugins == Get(Get(composerJson, "config"), "allow-plugins")
      plugin == Get(allowPlugins, "bamarni/composer-bin-plugin")
      pluginEnabled == plugin.t = "bool" /\ plugin.b
      targetDirectoryRaw == Get(Get(Get(composerJson, "extra"), "bamarni-bin"), "target-directory")
      targetDirectory == IF targetDirectoryRaw.t = "str" /\ targetDirectoryRaw.s # <<"">>
                           THEN targetDirectoryRaw.s ELSE <<"vendor-bin">>
      toolRoot == IF pathIsAbsolute(targetDirectory) THEN targetDirectory
                  ELSE pathResolve(composerDir, targetDirectory)
      phpstanProjectDir == pathJoin(toolRoot, <<"phpstan">>)
      phpstanPath == pathJoin(phpstanProjectDir, <<"vendor", "bin", "phpstan">>)
  IN IF ~pluginEnabled THEN <<>>
     ELSE IF phpstanProjectDir \notin fs.dirs THEN <<>>
     ELSE IF ~fileExists(fs, phpstanPath) THEN <<>>
     ELSE FileRuntime(phpstanPath, <<>>, "bamarni-composer-bin-plugin")

\* detectPhpstanRuntimeFromComposerJsonPath, for /p/composer.json: content is
\* <<>> if the file cannot be read or is no JSON, else the value it parses to
detectPhpstanRuntimeFromComposerJsonPath(fs, content) ==
  IF content = <<>> THEN <<>>
  ELSE IF IsNullish(content[1]) \/ ~TypeofObject(content[1]) THEN <<>>
  ELSE LET composerJson == content[1]
           composerDir == ComposerDir
           vendorDirRaw == Get(Get(composerJson, "config"), "vendor-dir")
           scriptCandidate ==
             detectFromScriptsPhpstan(fs, composerDir, Get(Get(composerJson, "scripts"), "phpstan"))
           vendorDirCandidate == detectFromVendorDir(fs, composerDir, vendorDirRaw)
           defaultVendorCandidate == detectFromDefaultVendorDir(fs, composerDir)
       IN IF scriptCandidate # <<>> THEN scriptCandidate
          ELSE IF vendorDirCandidate # <<>> THEN vendorDirCandidate
          ELSE IF vendorDirRaw.t # "str" /\ defaultVendorCandidate # <<>>
            THEN defaultVendorCandidate
          ELSE detectFromBamarniPlugin(fs, composerDir, composerJson)

\* the scripts, composer.json files and file systems the function is applied to
EchoSkip == << <<"echo">>, <<"skip">> >>
PhpstanScript == << <<"phpstan">>, <<"--memory-limit=2G">> >>
ToolsScript == << <<".", "tools", "phpstan">>, <<"--memory-limit=1G">> >>
ChainedScript ==
  << <<"echo">>, <<"setup">>, <<"&&">>, <<".", "tools", "phpstan">>, <<";">>, <<"phpstan-wrapper">> >>
ScriptEntries == {JStr(EchoSkip), JStr(PhpstanScript), JStr(ToolsScript), JNum(5)}
ScriptArrays == UNION {[1..n -> ScriptEntries] : n \in 0..MaxScripts}
ScriptValues ==
  {Undefined, JStr(EchoSkip), JStr(PhpstanScript), JStr(ToolsScript), JStr(ChainedScript)}
    \cup {JArr(entries) : entries \in ScriptArrays}
VendorDirValues == {Undefined, JStr(<<"custom-vendor">>), JStr(<<"">>), JNum(5)}
TargetDirectoryValues == {Undefined, JStr(<<"tools-bin">>), JStr(<<"">>)}

\* a member of an object, left out if the value is undefined
Member(key, value) == IF value.t = "undefined" THEN <<>> ELSE << <<key, value>> >>

ComposerJson(script, vendorDir, plugin, targetDirectory) ==
  JObj(Member("scripts", IF script.t = "undefined" THEN Undefined
                         ELSE JObj(Member("phpstan", script)))
       \o <<<<"config",
              JObj(Member("vendor-dir", vendorDir)
                   \o <<<<"allow-plugins",
                          JObj(<<<<"bamarni/composer-bin-plugin", JBool(plugin)>>>>)>>>>)>>>>
       \o Member("extra", IF targetDirectory.t = "undefined" THEN Undefined
                          ELSE JObj(<<<<"bamarni-bin",
                                        JObj(Member("target-directory", targetDirectory))>>>>)))

ComposerContents ==
  {<<>>, <<JNull>>, <<JNum(5)>>}
    \cup {<<ComposerJson(script, vendorDir, plugin, targetDirectory)>> :
            script \in ScriptValues, vendorDir \in VendorDirValues,
            plugin \in BOOLEAN, targetDirectory \in TargetDirectoryValues}

ToolsPhpstanPath == <<"", "p", "tools", "phpstan">>
CustomVendorPhpstanPath == <<"", "p", "custom-vendor", "bin", "phpstan">>
DefaultVendorPhpstanPath == <<"", "p", "vendor", "bin", "phpstan">>
VendorBinProject == <<"", "p", "vendor-bin", "phpstan">>
ToolsBinProject == <<"", "p", "tools-bin", "phpstan">>

\* the files and directories that exist: a project directory of the plugin may
\* be missing, a file, an empty directory or hold vendor/bin/phpstan
FileSystems ==
  {[files |-> plain \cup {project \o <<"vendor", "bin", "phpstan">> : project \in installed}
                    \cup blocked,
    dirs |-> projects] :
     plain \in SUBSET {ToolsPhpstanPath, CustomVendorPhpstanPath, DefaultVendorPhpstanPath},
     projects \in SUBSET {VendorBinProject, ToolsBinProject},
     installed \in SUBSET {VendorBinProject, ToolsBinProject},
     blocked \in SUBSET {VendorBinProject}}

DetectInit ==
  /\ ServiceInit
  /\ sample \in {[fs |-> fs, content |-> content, result |-> <<>>] :
                   fs \in {f \in FileSystems :
                             \A project \in {VendorBinProject, ToolsBinProject} :
                               /\ project \o <<"vendor", "bin", "phpstan">> \in f.files
                                    => project \in f.dirs
                               /\ ~(project \in f.dirs /\ project \in f.files)},
                   content \in ComposerContents}

detectRuntime ==
  /\ sample.result = <<>>
  /\ sample' = [sample EXCEPT
                  !.result = <<detectPhpstanRuntimeFromComposerJsonPath(sample.fs, sample.content)>>]
  /\ UNCHANGED <<diagVars, bridgeVars>>

DetectNext == detectRuntime

DetectSpec == DetectInit /\ [][DetectNext]_vars

(* ------------------------------------------------------------------ *)
(* Settings received from the client                                  *)
(* ------------------------------------------------------------------ *)

\* most settings payloads received in one behaviour
MaxUpdates == 2

\* the strings of an array: filter((arg) => typeof arg === 'string')
stringsOf(values) ==
  LET strings == SelectSeq(values, LAMBDA value : value.t = "str")
  IN [i \in 1..Len(strings) |-> strings[i].s]

\* parseCommandOverride: <<>> stands for undefined, <<override>> for an
\* override, itself <<>> for null; an override without args is given none
parseCommandOverride(value) ==
  IF IsFalsy(value) \/ ~TypeofObject(value) THEN <<>>
  ELSE LET command == Get(value, "command")
           args == Get(value, "args")
       IN IF command.t # "str" THEN <<>>
          ELSE IF command.s = "" THEN <<>>
          ELSE << <<[command |-> command.s,
                     args |-> IF args.t = "arr" THEN stringsOf(args.a) ELSE <<>>]>> >>

\* parseDiagnosticsSettings, for the keys under phpstan: <<>> stands for a key
\* that the result does not have
parseDiagnosticsSettings(value) ==
  IF IsFalsy(value) \/ ~TypeofObject(value)
    THEN [extraArgs |-> <<>>, commandOverride |-> <<>>]
    ELSE LET extraArgs == Get(Get(value, "phpstan"), "extraArgs")
         IN [extraArgs |-> IF extraArgs.t = "arr" THEN <<stringsOf(extraArgs.a)>> ELSE <<>>,
             commandOverride |-> parseCommandOverride(Get(Get(value, "phpstan"), "commandOverride"))]

\* { ...left, ...right } of two updates
spreadUpdate(left, right) ==
  [extraArgs |-> IF right.extraArgs # <<>> THEN right.extraArgs ELSE left.extraArgs,
   commandOverride |-> IF right.commandOverride # <<>> THEN right.commandOverride
                       ELSE left.commandOverride]

\* readSettingsFromPayload, for the keys under phpstan
readSettingsFromPayload(payload) ==
  IF IsFalsy(payload) \/ ~TypeofObject(payload)
    THEN [extraArgs |-> <<>>, commandOverride |-> <<>>]
    ELSE LET direct == parseDiagnosticsSettings(payload)
             scoped == parseDiagnosticsSettings(Get(payload, "phpstanLsLite"))
             scopedByName == parseDiagnosticsSettings(Get(payload, "@zonuexe/phpstan-ls-lite"))
             nested == parseDiagnosticsSettings(Get(payload, "settings"))
         IN spreadUpdate(spreadUpdate(spreadUpdate(direct, scoped), scopedByName), nested)

\* the values of phpstan.commandOverride and phpstan.extraArgs in a payload
CommandOverrideValues ==
  {Undefined, JNull, JNum(5),
   JObj(<< <<"command", JStr("docker")>>,
           <<"args", JArr(<<JStr("exec"), JNum(1), JStr("phpstan")>>)>> >>),
   JObj(<< <<"command", JStr("phpstan-wrapper")>> >>),
   JObj(<< <<"command", JStr("")>> >>)}
ExtraArgsValues == {Undefined, JArr(<<JStr("--level=9")>>), JStr("--level=9")}

\* the payloads: the keys at the root of the payload or under a scope
SettingsObject(commandOverride, extraArgs) ==
  JObj(<< <<"phpstan", JObj(Member("commandOverride", commandOverride)
                            \o Member("extraArgs", extraArgs))>> >>)
SettingsPayloads ==
  {JNull}
    \cup {SettingsObject(commandOverride, extraArgs) :
            commandOverride \in CommandOverrideValues, extraArgs \in ExtraArgsValues}
    \cup {JObj(<< <<scope, SettingsObject(commandOverride, Undefined)>> >>) :
            scope \in {"phpstanLsLite", "settings"}, commandOverride \in CommandOverrideValues}

\* DEFAULT_SETTINGS.phpstan
DEFAULT_PHPSTAN_SETTINGS == [extraArgs |-> <<>>, commandOverride |-> <<>>]

\* the service after construction: no payload received yet
SettingsInit ==
  /\ ServiceInit
  /\ sample = [phpstan |-> DEFAULT_PHPSTAN_SETTINGS, before |-> DEFAULT_PHPSTAN_SETTINGS,
               payload |-> <<>>, updates |-> 0, command |-> <<>>]

\* onInitialize and onDidChangeConfiguration:
\* updateSettings(readSettingsFromPayload(payload))
didChangeConfiguration(payload) ==
  /\ sample.updates < MaxUpdates
  /\ sample' = [phpstan |-> mergePhpstanSettings(sample.phpstan, readSettingsFromPayload(payload)),
                before |-> sample.phpstan,
                payload |-> <<payload>>,
                updates |-> sample.updates + 1,
                command |-> <<>>]
  /\ UNCHANGED <<diagVars, bridgeVars>>

\* an analysis builds its command from the settings
analyseWithSettings ==
  /\ sample.command = <<>>
  /\ sample' = [sample EXCEPT
                  !.command = <<overriddenCommand(
                                  [runtime |-> [kind |-> "command", command |-> "phpstan",
                                                args |-> <<>>],
                                   workingDirectory |-> "/p"],
                                  sample.phpstan, FilePath)>>]
  /\ UNCHANGED <<diagVars, bridgeVars>>

SettingsNext ==
  \/ \E payload \in SettingsPayloads : didChangeConfiguration(payload)
  \/ analyseWithSettings

SettingsSpec == SettingsInit /\ [][SettingsNext]_vars

(* ------------------------------------------------------------------ *)
(* Properties of the diagnostics service                              *)
(* ------------------------------------------------------------------ *)

PublishedByRun == {p \in BagToSet(published) : p.via \in {"primary", "fallback"}}
ArmedIn(bag, uri) == {d \in BagToSet(bag) : d.uri = uri}
ArmedFor(uri) == ArmedIn(armed, uri)

C2_OneProcessAtATime ==
  /\ Cardinality(RunningProcesses) <= 1
  /\ \A i \in 2..Len(tasks) : tasks[i].pc = "queued"

\* a process runs while the next task waits
C2_Witness ==
  /\ Len(tasks) >= 2
  /\ tasks[1].pc \in ProcessPcs
  /\ tasks[2].pc = "queued"

\* the head of the queue starts in this step
StartStep ==
  /\ Len(tasks) > 0
  /\ tasks[1].pc = "queued"
  /\ tasks' # tasks
  /\ Len(tasks') <= Len(tasks)

\* C3: a task that starts while the version recorded for its uri differs from the
\* version of its document (or none is recorded) ends at once: no snapshot, no
\* process, no publication.
C3_StaleTaskSkipped ==
  [][(/\ StartStep
      /\ tasks[1].uri \in DOMAIN pendingDocuments
      /\ MapGet(versions, tasks[1].uri) # <<pendingDocuments[tasks[1].uri].version>>)
     => (/\ tasks' = Tail(tasks)
         /\ published' = NoPub
         /\ orphaned' = {}
         /\ \A i \in 1..Len(tasks') : tasks'[i].pc = "queued" /\ ~tasks'[i].temp)]_vars

\* a task has just been skipped at its first version check
C3_Witness ==
  /\ ended = "stale"
  /\ published = NoPub

\* C4: every uri has at most one armed debounce timer, it is the one in the
\* timers map and it carries the document of the last accepted schedule call;
\* its fire enqueues exactly one task, hands that document to the task and
\* leaves no timer armed for the uri.
C4_TimerInvariant ==
  \A u \in Uris :
    /\ Cardinality(ArmedFor(u)) <= 1
    /\ \A d \in ArmedFor(u) :
         /\ CopiesIn(d, armed) = 1
         /\ MapGet(timers, u) = <<d>>
         /\ MapGet(versions, u) = <<d.version>>
    /\ u \in DOMAIN timers => ArmedFor(u) # {}

\* the timer of uri fires in this step: it stops being armed without being cleared
FireStep(u) ==
  /\ \E d \in ArmedFor(u) : CopiesIn(d, armed') < CopiesIn(d, armed)
  /\ u \notin cancelled'

C4_TimerFire ==
  \A u \in Uris : FireStep(u) =>
    /\ Len(tasks') = Len(tasks) + 1
    /\ SubSeq(tasks', 1, Len(tasks)) = tasks
    /\ tasks'[Len(tasks')] = NewTask(u)
    /\ u \in DOMAIN versions
    /\ u \in DOMAIN pendingDocuments'
    /\ pendingDocuments'[u] = Doc(u, versions[u])
    /\ ArmedIn(armed', u) = {}
    /\ u \notin DOMAIN timers'

C4_OneTimerPerUri == [](C4_TimerInvariant) /\ [][C4_TimerFire]_vars

\* a schedule call replaced a timer that had not fired
C4_Witness ==
  \E u \in cancelled :
    /\ u \in DOMAIN versions
    /\ ArmedFor(u) = {Doc(u, versions[u])}

\* C8: every snapshot a run creates is deleted by the time its task ends.
C8_SnapshotReleased == orphaned = {}

\* the steps in which a task ends with a fault
FaultEnd ==
  /\ Len(tasks) > 0
  /\ Len(tasks') < Len(tasks)
  /\ \/ tasks[1].pc = "snapshot"
     \/ tasks[1].pc = "cleanup" /\ tasks[1].exit = "fault"

\* C9: a fault of a task is caught and logged by the queue and the chain stays
\* usable: the tasks behind it keep their order, the oldest waiting task can
\* start, and tasks start in enqueue order.
C9_QueueSurvivesFault ==
  /\ [](~chainRejected)
  /\ []((tasks # <<>> /\ tasks[1].pc = "queued") => ENABLED startTask(1))
  /\ [][FaultEnd => (logged' = {"task failed"} /\ tasks' = Tail(tasks))]_vars
  /\ [][\A i \in 2..Len(tasks) :
          IF Len(tasks') < Len(tasks) THEN tasks'[i - 1] = tasks[i]
                                      ELSE tasks'[i] = tasks[i]]_vars

\* a task has just failed and another one waits behind it
C9_Witness ==
  /\ logged = {"task failed"}
  /\ tasks # <<>>
  /\ tasks[1].pc = "queued"

\* C10: clear(uri) cancels the timer of uri, removes its recorded version and its
\* pending document, publishes exactly one empty set for uri and leaves the
\* timers, versions and pending documents of every other uri unchanged.
C10_ClearEffect ==
  [][\A u \in Uris : BagIn(Pub(u, "empty", 0, "clear"), published') =>
       /\ u \notin DOMAIN timers'
       /\ ArmedIn(armed', u) = {}
       /\ u \notin DOMAIN versions'
       /\ u \notin DOMAIN pendingDocuments'
       /\ published' = OnePub(Pub(u, "empty", 0, "clear"))
       /\ BagCardinality(published') = 1
       /\ \A o \in Uris \ {u} :
            /\ MapGet(timers', o) = MapGet(timers, o)
            /\ MapGet(versions', o) = MapGet(versions, o)
            /\ MapGet(pendingDocuments', o) = MapGet(pendingDocuments, o)
            /\ ArmedIn(armed', o) = ArmedIn(armed, o)
            /\ \A d \in ArmedFor(o) : CopiesIn(d, armed') = CopiesIn(d, armed)]_vars

\* clear cancelled an armed timer while another uri keeps its timer
C10_Witness ==
  \E u \in cancelled :
    /\ published = OnePub(Pub(u, "empty", 0, "clear"))
    /\ DOMAIN timers # {}

(* ------------------------------------------------------------------ *)
(* Properties of the reflection bridge client                         *)
(* ------------------------------------------------------------------ *)

RequestIds == 1..Len(requests)

\* C5: a request is resolved at most once, by a response, its timeout or worker
\* termination; it is in the pending map exactly while unresolved, and from its
\* resolution on its timer is not armed.
C5_ResolvedAtMostOnce ==
  /\ \A id \in RequestIds :
       /\ requests[id].calls <= 1
       /\ id \in DOMAIN pending <=> requests[id].calls = 0
       /\ requests[id].calls = 0 => requests[id].timer
       /\ requests[id].calls >= 1 => ~requests[id].timer
  /\ \A r \in resolved :
       /\ r.id \in RequestIds
       /\ requests[r.id].calls = 1
       /\ r.by \in {"response", "timeout", "error", "close", "dispose"}

\* the response to a request arrived after the request had been resolved
C5_Witness ==
  /\ handled # <<>>
  /\ parseReflectionResponse(handled[1].line) # <<>>
  /\ handled[1].line.id \in RequestIds
  /\ requests[handled[1].line.id].calls = 1
  /\ resolved = {}

\* a worker's error or close event happens in this step
TerminationStep(w) ==
  /\ w \in 1..Len(workers)
  /\ Len(workers') = Len(workers)
  /\ \/ workers'[w].errored # workers[w].errored
     \/ workers'[w].closed # workers[w].closed

\* C6: on a worker error or close event every pending request resolves to null,
\* the pending map becomes empty and the worker reference absent; the next send
\* spawns a fresh worker; no worker exists before the first send.
C6_WorkerTermination ==
  /\ [](Len(workers) <= Len(requests))
  /\ [][\A w \in 1..MaxWorkers : TerminationStep(w) =>
          /\ pending' = EmptyMap
          /\ child' = <<>>
          /\ \A id \in DOMAIN pending :
               /\ requests'[id].calls = 1
               /\ \E r \in resolved' : r.id = id /\ r.value = "null"
          /\ \A r \in resolved' : r.id \in DOMAIN pending /\ r.value = "null"]_vars
  /\ [][(Len(requests') > Len(requests) /\ child = <<>>) =>
          /\ Len(workers') = Len(workers) + 1
          /\ workers'[Len(workers')] = NewWorker
          /\ child' = <<Len(workers')>>]_vars

\* a worker exited with a request pending and a later send spawned a new worker
C6_Witness ==
  /\ Len(workers) = 2
  /\ child = <<2>>
  /\ workers[1].closed
  /\ ~workers[1].killed
  /\ Len(requests) = 2
  /\ requests[1].calls = 1
  /\ requests[2].calls = 0

\* C7: a request whose timeout fires resolves to null and its id is not in the
\* pending map from then on; a request whose timer is no longer armed is resolved.
C7_TimeoutResolvesAbsent ==
  /\ \A r \in resolved :
       r.by = "timeout" => (r.value = "null" /\ r.id \notin DOMAIN pending)
  /\ \A id \in RequestIds :
       /\ ~requests[id].timer => requests[id].calls >= 1
       /\ requests[id].calls >= 1 => id \notin DOMAIN pending

\* a timeout has just resolved a request while a later request is still pending
C7_Witness ==
  \E id \in RequestIds :
    /\ resolved = {Resolution(id, "null", "timeout")}
    /\ id \notin DOMAIN pending
    /\ id + 1 \in DOMAIN pending

\* a worker process that is alive: spawned (it did not fail to start) and neither
\* exited nor killed
WorkerAlive(w) ==
  /\ ~workers[w].errored
  /\ ~workers[w].closed
  /\ ~workers[w].killed

\* C11: at most one worker process spawned by the client is alive at any time.
C11_OneWorkerAlive ==
  Cardinality({w \in 1..Len(workers) : WorkerAlive(w)}) <= 1

\* a line that is not a valid response
InvalidLine(l) ==
  \/ ~l.json
  \/ l.protocolVersion # REFLECTION_PROTOCOL_VERSION
  \/ l.id = 0
  \/ l.ok = "missing"

\* C12: a line that is not a valid response, or whose id matches no pending
\* request, resolves nothing and leaves the pending map, the worker reference
\* and the reader as they are; a pending request leaves the map only by a valid
\* response with its id, its timeout or the termination of the worker; a valid
\* response with a pending id resolves that request, and after any line the
\* handler still accepts the next one.
C12_InvalidLineDropped ==
  /\ [][(handled' # <<>> /\ (InvalidLine(handled'[1].line)
                              \/ handled'[1].line.id \notin DOMAIN pending)) =>
          /\ resolved' = {}
          /\ pending' = pending
          /\ requests' = requests
          /\ child' = child
          /\ lineReader' = lineReader
          /\ workers' = workers]_vars
  /\ [][(handled' # <<>> /\ ~InvalidLine(handled'[1].line)
                         /\ handled'[1].line.id \in DOMAIN pending) =>
          /\ resolved' = {Resolution(handled'[1].line.id,
                                     IF handled'[1].line.ok = "true" THEN "ok" ELSE "error",
                                     "response")}
          /\ pending' = MapDelete(pending, handled'[1].line.id)]_vars
  /\ [][\A id \in DOMAIN pending : id \notin DOMAIN pending' =>
          \E r \in resolved' :
            /\ r.id = id
            /\ r.by \in {"response", "timeout", "error", "close", "dispose"}
            /\ r.by = "response" =>
                 /\ handled' # <<>>
                 /\ ~InvalidLine(handled'[1].line)
                 /\ handled'[1].line.id = id]_vars
  /\ [](handled # <<>> =>
          \A l \in Lines : ENABLED workerLine(handled[1].worker, l))

\* a response with a mismatched protocolVersion arrived for a pending request
\* and was dropped
C12_Witness ==
  /\ handled # <<>>
  /\ handled[1].line.json
  /\ handled[1].line.protocolVersion # REFLECTION_PROTOCOL_VERSION
  /\ handled[1].line.ok = "true"
  /\ handled[1].line.id \in DOMAIN pending
  /\ resolved = {}

\* C13: every request a send has registered is eventually resolved and leaves
\* the pending map, whatever the worker does, provided armed timers fire.
C13_EventuallyResolved ==
  \A id \in 1..MaxRequests :
    (id \in DOMAIN pending) ~>
      (id \in RequestIds /\ requests[id].calls >= 1 /\ id \notin DOMAIN pending)

\* the timeout resolved the last pending request of a worker that stayed silent
C13_Witness ==
  /\ \E id \in RequestIds : Resolution(id, "null", "timeout") \in resolved
  /\ pending = EmptyMap
  /\ child # <<>>
  /\ \A w \in 1..Len(workers) : ~workers[w].closed /\ ~workers[w].errored

\* the well-formed response to request id
ResponseTo(id, ok) ==
  [json |-> TRUE, protocolVersion |-> REFLECTION_PROTOCOL_VERSION, id |-> id, ok |-> ok]

\* C33: with several requests pending, a well-formed response resolves the
\* request whose id it carries and no other, with the response as the value,
\* and leaves every other pending request, and its timer, as they are; the
\* response to any pending request can be the next to arrive, whatever the
\* order of the sends.
C33_ResponseCorrelation ==
  /\ [][(/\ handled' # <<>>
          /\ ~InvalidLine(handled'[1].line)
          /\ handled'[1].line.id \in DOMAIN pending) =>
          LET id == handled'[1].line.id
          IN /\ resolved' = {Resolution(id, IF handled'[1].line.ok = "true" THEN "ok" ELSE "error",
                                        "response")}
             /\ requests'[id].calls = 1
             /\ DOMAIN pending' = DOMAIN pending \ {id}
             /\ \A other \in DOMAIN pending \ {id} :
                  /\ pending'[other] = pending[other]
                  /\ requests'[other] = requests[other]
                  /\ requests'[other].timer]_vars
  /\ [](\A id \in DOMAIN pending, ok \in {"true", "false"} :
          child # <<>> /\ ENABLED workerLine(child[1], ResponseTo(id, ok)))

\* the response to the second of two pending requests has arrived first
C33_Witness ==
  /\ resolved = {Resolution(2, "ok", "response")}
  /\ handled # <<>>
  /\ handled[1].line.id = 2
  /\ 1 \in DOMAIN pending
  /\ requests[1].timer

\* C34: the error or close event of a worker that is not the current one (it
\* was replaced by a newer worker, or disposed) resolves no request, and leaves
\* the pending map, the worker reference and the line reader as they are, the
\* reader of the current worker open.
C34_StaleWorkerEvent ==
  [][\A w \in 1..MaxWorkers : (TerminationStep(w) /\ child # <<w>>) =>
       /\ resolved' = {}
       /\ pending' = pending
       /\ requests' = requests
       /\ child' = child
       /\ lineReader' = lineReader
       /\ child # <<>> => workers'[child[1]].readerOpen = workers[child[1]].readerOpen]_vars

\* a resolve call made by a timeout or with an error response: the ways a
\* request fails while its worker runs
Failure(r) == r.by = "timeout" \/ r.value = "error"

\* C29: a request timeout and an error response leave the worker running, the
\* worker reference and the reader unchanged, and every other pending request
\* pending with its timer armed; the next send spawns nothing and goes to the
\* same worker. A ping returns true exactly if its request is resolved by a
\* valid response with ok = true that arrives while the request is pending.
C29_FailureKeepsWorker ==
  /\ [][\A r \in resolved' : Failure(r) =>
          /\ child' = child
          /\ workers' = workers
          /\ lineReader' = lineReader
          /\ pending' = MapDelete(pending, r.id)
          /\ \A id \in DOMAIN pending \ {r.id} : requests'[id] = requests[id]]_vars
  /\ []((\E r \in resolved : Failure(r)) =>
          /\ child # <<>>
          /\ WorkerAlive(child[1])
          /\ lineReader = child
          /\ Len(requests) < MaxRequests =>
               /\ ENABLED sendRequest
               /\ ~ENABLED (sendRequest /\ (child' # child \/ workers' # workers)))
  /\ [][\A r \in resolved' :
          ping(r.value) <=>
            /\ handled' # <<>>
            /\ ~InvalidLine(handled'[1].line)
            /\ handled'[1].line.ok = "true"
            /\ handled'[1].line.id = r.id
            /\ r.id \in DOMAIN pending]_vars

\* an error response has just resolved a request while another request is
\* pending on the same worker
C29_Witness ==
  /\ \E r \in resolved : r.value = "error" /\ ~ping(r.value)
  /\ pending # EmptyMap
  /\ child # <<>>
  /\ Len(workers) = 1

(* ------------------------------------------------------------------ *)
(* Properties of the handling of the primary result                   *)
(* ------------------------------------------------------------------ *)

\* C14: a launch failure of the primary process (exit code -1) makes the run
\* publish the one synthesized failure diagnostic, without parsing the output
\* and without a fallback execution.
C14_LaunchFailurePublished ==
  (sample.outcome # <<>> /\ sample.r.code = -1) =>
    sample.outcome[1] = [parsed |-> FALSE, fallback |-> FALSE, kind |-> "failure"]

C14_Witness ==
  /\ sample.outcome # <<>>
  /\ sample.r.code = -1
  /\ sample.r.stderr

\* the first non-empty of the three sources of diagnostics ("none" if all are empty)
FirstNonEmpty(r, editorModeUsed) ==
  IF r.forFile THEN "file"
  ELSE IF ~editorModeUsed /\ r.forTemp THEN "temp"
  ELSE IF r.globalErrors THEN "global"
  ELSE "none"

\* C15: for a primary process that was launched, the diagnostics published are
\* the first non-empty of: those under the original path, those under the
\* snapshot path (only without editor mode), the global errors; they are
\* published whatever the exit code, with no fallback and no failure diagnostic.
C15_ParsePrecedence ==
  (sample.outcome # <<>> /\ sample.r.code # -1
     /\ FirstNonEmpty(sample.r, sample.editorModeUsed) # "none") =>
    sample.outcome[1] = [parsed |-> TRUE, fallback |-> FALSE,
                         kind |-> FirstNonEmpty(sample.r, sample.editorModeUsed)]

\* with editor mode the diagnostics under the snapshot path are passed over
\* for the global errors, on a non-zero exit with stderr output
C15_Witness ==
  /\ sample.outcome # <<>>
  /\ sample.editorModeUsed
  /\ sample.r.forTemp
  /\ ~sample.r.forFile
  /\ sample.r.globalErrors
  /\ sample.r.code = 1
  /\ sample.r.stderr
  /\ sample.outcome[1].kind = "global"

\* C16: a primary process that exits non-zero with no per-file and no global
\* diagnostics and a syntax-error signal in its output is followed by the
\* fallback analysis of the saved file.
C16_SyntaxErrorFallback ==
  (sample.outcome # <<>> /\ sample.r.code = 1
     /\ FirstNonEmpty(sample.r, sample.editorModeUsed) = "none"
     /\ sample.r.syntax) =>
    sample.outcome[1].fallback

\* C17: a primary process that exits non-zero with no per-file and no global
\* diagnostics and no syntax-error signal makes the run publish the one
\* synthesized failure diagnostic, never the empty set.
C17_FailurePublished ==
  (sample.outcome # <<>> /\ sample.r.code = 1
     /\ FirstNonEmpty(sample.r, sample.editorModeUsed) = "none"
     /\ ~sample.r.syntax) =>
    (sample.outcome[1].kind = "failure" /\ ~sample.outcome[1].fallback)

\* the task at the head of the chain takes a step and stays in the queue
HeadStep == Len(tasks) >= 1 /\ Len(tasks') >= Len(tasks) /\ tasks'[1] # tasks[1]

\* C19: the version probe is launched only when the cache has no entry for the
\* key; the probe that ends stores its outcome as the first entry for the key,
\* unsupported when it failed (non-zero exit or unparsable version); a stored
\* entry stays as it is until dispose empties the cache; and a run that finds
\* the entry uses its value and launches the primary process, not a probe.
C19_ProbeOncePerKey ==
  /\ \A code \in ExitCodes, versionOutput \in VersionOutputs :
       (code # 0 \/ (~versionOutput.dev /\ versionOutput.semver = <<>>))
         => ~probeSupported(code, versionOutput)
  /\ [][ /\ \A key \in DOMAIN versionSupportCache :
              \/ versionSupportCache' = EmptyMap
              \/ /\ key \in DOMAIN versionSupportCache'
                 /\ versionSupportCache'[key] = versionSupportCache[key]
         /\ HeadStep =>
              LET key == cacheKey(tasks[1].uri)
              IN /\ tasks'[1].pc = "probe" => key \notin DOMAIN versionSupportCache
                 /\ tasks[1].pc = "probe" =>
                      /\ key \notin DOMAIN versionSupportCache
                      /\ key \in DOMAIN versionSupportCache'
                      /\ tasks'[1].pc \in {"primary", "cleanup"}
                      /\ tasks'[1].editorModeUsed = versionSupportCache'[key]
                 /\ (tasks[1].pc = "snapshot" /\ key \in DOMAIN versionSupportCache) =>
                      /\ tasks'[1].pc \in {"primary", "cleanup"}
                      /\ tasks'[1].editorModeUsed = versionSupportCache[key]
                      /\ versionSupportCache' = versionSupportCache
       ]_vars

\* an earlier run has stored the outcome unsupported and a later run has
\* reached the lookup
C19_Witness ==
  /\ Len(tasks) >= 1
  /\ tasks[1].pc = "snapshot"
  /\ cacheKey(tasks[1].uri) \in DOMAIN versionSupportCache
  /\ ~versionSupportCache[cacheKey(tasks[1].uri)]

\* a step of the task at the head of the queue that publishes
HeadPublishes ==
  /\ \/ startTask(1)
     \/ \E created \in BOOLEAN, spawnOk \in BOOLEAN : createSnapshot(1, created, spawnOk)
     \/ \E code \in ExitCodes, versionOutput \in VersionOutputs, spawnOk \in BOOLEAN :
          probeDone(1, code, versionOutput, spawnOk)
     \/ primaryDone(1)
     \/ fallbackDone(1)
     \/ cleanupTempPhpFile(1)
  /\ published' # NoPub

\* C35: a uri that was cleared, or disposed of, and not scheduled since has no
\* recorded version; for such a uri no timer is armed and no document is
\* pending, no run has published in the last step, and the task at the head of
\* the queue, waiting or with a process running, cannot publish: what clear
\* published, the empty set, stays the last set published for the uri.
C35_NothingAfterClear ==
  /\ \A p \in PublishedByRun : p.uri \in DOMAIN versions
  /\ \A document \in BagToSet(armed) : document.uri \in DOMAIN versions
  /\ DOMAIN pendingDocuments \subseteq DOMAIN versions
  /\ DOMAIN timers \subseteq DOMAIN versions
  /\ (Len(tasks) > 0 /\ tasks[1].uri \notin DOMAIN versions) => ~ENABLED HeadPublishes

\* clear has just been called for the uri of a run whose process is running
C35_Witness ==
  /\ Len(tasks) > 0
  /\ tasks[1].pc \in ProcessPcs
  /\ tasks[1].uri \notin DOMAIN versions
  /\ published = OnePub(Pub(tasks[1].uri, "empty", 0, "clear"))

\* C36: while diagnostics are disabled every set published is empty, also the
\* sets published by the runs of timers armed, and of tasks queued or running,
\* when diagnostics were disabled.
C36_DisabledPublishesNothing ==
  ~settings.enableDiagnostics => \A p \in BagToSet(published) : p.kind = "empty"

\* the sets published by runs in the last step, the empty set of a run for a
\* document that is no file included
PublishedByRuns == {p \in BagToSet(published) : p.via \in {"primary", "fallback", "nofile"}}

\* the run at the head of the queue reads the result of its last process and
\* goes on to release the snapshot without a fault and without publishing
HeadSkipsPublication ==
  /\ primaryDone(1) \/ fallbackDone(1)
  /\ tasks'[1].pc = "cleanup"
  /\ tasks'[1].exit # "fault"
  /\ published' = NoPub

\* C37: a run publishes at most one set: a step publishes one set at most, and
\* the run that has published is about to release its snapshot and cannot
\* publish again; a run that is not stale when the result of its last process
\* is read, and raises no fault, publishes; the run publishes while its
\* snapshot exists and while every task behind it waits.
C37_OnePublicationPerRun ==
  /\ Cardinality(PublishedByRuns) <= 1
  /\ \A p \in PublishedByRuns : CopiesIn(p, published) = 1
  /\ \A p \in PublishedByRuns :
       IF p.via = "nofile" THEN ended = "nofile"
       ELSE /\ Len(tasks) > 0
            /\ tasks[1].pc = "cleanup"
            /\ tasks[1].exit = "published"
            /\ tasks[1].temp
            /\ tasks[1].uri = p.uri
            /\ tasks[1].version = p.version
            /\ \A i \in 2..Len(tasks) : tasks[i].pc = "queued"
  /\ \A i \in 1..Len(tasks) :
       tasks[i].pc = "cleanup" =>
         /\ i = 1
         /\ tasks[i].exit \in {"published", "stale", "fault"}
         /\ ~ENABLED HeadPublishes
  /\ (/\ Len(tasks) > 0
      /\ tasks[1].pc \in {"primary", "fallback"}
      /\ MapGet(versions, tasks[1].uri) = <<tasks[1].version>>) =>
       ~ENABLED HeadSkipsPublication

\* a run has published after its fallback process while another task waits
C37_Witness ==
  /\ Len(tasks) >= 2
  /\ tasks[1].pc = "cleanup"
  /\ tasks[1].exit = "published"
  /\ tasks[2].pc = "queued"
  /\ \E p \in PublishedByRuns : p.via = "fallback" /\ p.uri = tasks[1].uri

\* the debounce timer of the last schedule call for uri, with version v, has fired
Fired(uri, v) ==
  /\ uri \notin DOMAIN timers
  /\ MapGet(pendingDocuments, uri) = <<Doc(uri, v)>>
  /\ MapGet(versions, uri) = <<v>>

\* a run publishes a diagnostic set for version v of uri
PublishedFor(uri, v) ==
  \E p \in PublishedByRuns : p.uri = uri /\ p.version = v

\* C39: once schedule(uri, v) is accepted, while diagnostics stay enabled and
\* nothing is cleared, its timer fires unless schedule is called again for the
\* uri, and after the timer has fired a diagnostic set for version v of uri is
\* published unless schedule is called again for the uri, whatever is
\* scheduled for other uris.
C39_EventuallyPublished ==
  \A uri \in Uris, v \in Versions :
    /\ (MapGet(timers, uri) = <<Doc(uri, v)>>) ~> (Fired(uri, v) \/ uri \in cancelled)
    /\ Fired(uri, v) ~> (PublishedFor(uri, v) \/ uri \in DOMAIN timers)

\* the documents whose debounce timer can fire
ArmedDocuments == BagToSet(armed)

\* C38: the pending-document map holds one document per uri, the one of the
\* most recent fire for the uri, and a task waits for each; of the tasks queued
\* for a uri the first to start takes the document out of the map and runs on
\* it, and a task that finds no document ends without a run and publishes
\* nothing.
C38_OneRunPerPendingDocument ==
  /\ \A uri \in DOMAIN pendingDocuments :
       /\ pendingDocuments[uri].uri = uri
       /\ \E i \in 1..Len(tasks) : tasks[i].uri = uri /\ tasks[i].pc = "queued"
  /\ \A document \in ArmedDocuments :
       ~ENABLED (/\ timerFire(document)
                 /\ pendingDocuments' # MapSet(pendingDocuments, document.uri, document))
  /\ (Len(tasks) > 0 /\ tasks[1].pc = "queued") =>
       /\ ENABLED startTask(1)
       /\ ~ENABLED (/\ startTask(1)
                    /\ tasks[1].uri \in DOMAIN pendingDocuments')
       /\ IF tasks[1].uri \in DOMAIN pendingDocuments
            THEN ~ENABLED (/\ startTask(1)
                           /\ ended' \notin {"stale", "nofile"}
                           /\ \/ Len(tasks') # Len(tasks)
                              \/ tasks'[1].pc # "snapshot"
                              \/ tasks'[1].version # pendingDocuments[tasks[1].uri].version)
            ELSE ~ENABLED (/\ startTask(1)
                           /\ \/ ended' # "idle"
                              \/ published' # NoPub
                              \/ tasks' # Tail(tasks))

\* two fires for one uri were queued before the first task started: the first
\* task runs on the document of the second fire, the second task finds nothing
C38_Witness ==
  /\ Len(tasks) >= 2
  /\ tasks[1].pc = "snapshot"
  /\ tasks[1].version = 2
  /\ tasks[2].pc = "queued"
  /\ tasks[2].uri = tasks[1].uri
  /\ tasks[1].uri \notin DOMAIN pendingDocuments
  /\ tasks[1].uri \notin DOMAIN timers

\* a step of the task at the head of the queue that ends it
EndsHead ==
  /\ \/ startTask(1)
     \/ \E created \in BOOLEAN, spawnOk \in BOOLEAN : createSnapshot(1, created, spawnOk)
     \/ cleanupTempPhpFile(1)
  /\ Len(tasks') < Len(tasks)

\* C28: tasks start in the order in which their timers fired: a fired timer puts
\* its task behind all the others, the tasks behind the head of the queue wait
\* untouched and cannot start, and a task that ends leaves from the head; a
\* schedule call is possible whatever the tasks are doing, and it only arms a
\* timer: it changes no task and no pending document and publishes nothing.
C28_FifoStart ==
  /\ \A i \in 2..Len(tasks) : tasks[i] = NewTask(tasks[i].uri) /\ ~ENABLED startTask(i)
  /\ ~ENABLED (EndsHead /\ tasks' # Tail(tasks))
  /\ \A document \in BagToSet(armed) :
       ~ENABLED (timerFire(document) /\ tasks' # Append(tasks, NewTask(document.uri)))
  /\ \A uri \in Uris :
       /\ ENABLED schedule(uri, MaxVersion, "save")
       /\ ~ENABLED (/\ schedule(uri, MaxVersion, "save")
                    /\ \/ tasks' # tasks
                       \/ pendingDocuments' # pendingDocuments
                       \/ published' # NoPub
                       \/ DOMAIN timers' \ DOMAIN timers \notin {{}, {uri}})

\* a schedule call has just replaced a timer while a process runs and a task waits
C28_Witness ==
  /\ Len(tasks) >= 2
  /\ tasks[1].pc \in ProcessPcs
  /\ tasks[2].pc = "queued"
  /\ \E u \in cancelled : u \in DOMAIN timers

(* ------------------------------------------------------------------ *)
(* Properties of the commands of a run                                *)
(* ------------------------------------------------------------------ *)

Elements(s) == {s[i] : i \in 1..Len(s)}

\* the arguments of the primary command that come from the runtime, the extra
\* arguments and the command override: those before the snapshot arguments
PrimaryBase(mode, command) ==
  LET base == splitByTargetSeparator(command.args).base
  IN IF mode THEN SubSeq(base, 1, Len(base) - 4) ELSE base

\* C18: the fallback command analyses the saved file: the original path is its
\* only positional target, it has neither the snapshot path nor --tmp-file or
\* --instead-of, and it carries the extra arguments and the command override
\* of the primary command.
C18_FallbackCommand ==
  sample.pc = "fallback" =>
    LET fallback == sample.fallback[1]
        primary == sample.primary[1]
    IN /\ splitByTargetSeparator(fallback.args).targets = <<FilePath>>
       /\ Elements(fallback.args) \cap {TempFilePath, "--tmp-file", "--instead-of"} = {}
       /\ fallback.command = primary.command
       /\ splitByTargetSeparator(fallback.args).base
            = PrimaryBase(sample.editorModeSupported, primary)

(* ------------------------------------------------------------------ *)
(* Properties of the version check                                    *)
(* ------------------------------------------------------------------ *)

\* (minor, patch) >= (m, p), numerically, component by component
MinorPatchAtLeast(t, m, p) == t[2] > m \/ (t[2] = m /\ t[3] >= p)

\* C20: the version check answers true iff the text has the '-dev@' marker, or
\* its first major.minor.patch token has major >= 3, or major 1 and
\* (minor, patch) >= (12, 27), or major 2 and (minor, patch) >= (1, 17);
\* false for major 0 and for a text without a token.
C20_EditorModeSupported ==
  sample.supported # <<>> =>
    sample.supported[1] =
      (\/ sample.dev
       \/ /\ sample.tokens # <<>>
          /\ LET first == sample.tokens[1]
             IN \/ first[1] >= 3
                \/ first[1] = 1 /\ MinorPatchAtLeast(first, 12, 27)
                \/ first[1] = 2 /\ MinorPatchAtLeast(first, 1, 17))

\* a release of major 2 below the minimum, followed by nothing, is refused
C20_Witness ==
  /\ sample.supported = <<FALSE>>
  /\ ~sample.dev
  /\ sample.tokens = <<<<2, 1, 16>>>>

\* the arguments before the first separator token
BeforeSeparator(args) ==
  LET k == CHOOSE i \in 1..(Len(args) + 1) :
             /\ i <= Len(args) => args[i] = "--"
             /\ \A j \in 1..(i - 1) : args[j] # "--"
  IN SubSeq(args, 1, k - 1)

\* the primary command is built in this step
BuildPrimaryStep == sample.pc = "build" /\ sample'.pc = "primary"

\* C21: with editor mode supported the primary command has --tmp-file <snapshot>
\* --instead-of <original> directly before the separator and the original path
\* as its only target; with editor mode unsupported it has the snapshot path as
\* its only target and neither --tmp-file nor --instead-of; either way the
\* arguments that preceded the separator in the base command are kept in order.
C21_SnapshotArgs ==
  [][ BuildPrimaryStep =>
        LET base == overriddenCommand(sample.resolvedRuntime, sample.phpstan, FilePath)
            kept == BeforeSeparator(base.args)
            args == sample'.primary[1].args
        IN IF sample.editorModeSupported
             THEN args = kept \o <<"--tmp-file", TempFilePath, "--instead-of", FilePath>>
                              \o <<"--", FilePath>>
             ELSE /\ args = kept \o <<"--", TempFilePath>>
                  /\ Elements(args) \cap {"--tmp-file", "--instead-of"} = {}
    ]_vars

\* a primary command in editor mode with extra arguments and a command override
C21_Witness ==
  /\ sample.pc = "primary"
  /\ sample.editorModeSupported
  /\ sample.primary[1].command = "docker"
  /\ sample.primary[1].args =
       <<"exec", "app", "phpstan", "--memory-limit=1G", "analyze", "--error-format=json",
         "--no-progress", "--no-interaction", "--level=9", "--tmp-file", TempFilePath,
         "--instead-of", FilePath, "--", FilePath>>

\* C22: whatever tokens the extra arguments and the command override contain,
\* the command of a document is the override arguments, the runtime's leading
\* arguments, the subcommand and the fixed flags, the extra arguments (and the
\* snapshot arguments of editor mode), then the separator, then the one target.
C22_SeparatorContract ==
  sample.command # <<>> =>
    LET runtime == sample.resolvedRuntime.runtime
        override == IF sample.phpstan.commandOverride = <<>> THEN <<>>
                    ELSE sample.phpstan.commandOverride[1].args
        leading == IF runtime.args # <<>> /\ runtime.args[1] \in {"analyze", "analyse"}
                     THEN SubSeq(runtime.args, 2, Len(runtime.args))
                     ELSE runtime.args
        fixed == <<"analyze", "--error-format=json", "--no-progress", "--no-interaction">>
        snapshot == IF sample.editorModeSupported
                      THEN <<"--tmp-file", TempFilePath, "--instead-of", FilePath>>
                      ELSE <<>>
        target == IF sample.editorModeSupported THEN FilePath ELSE TempFilePath
    IN sample.command[1].args =
         override \o leading \o fixed \o sample.phpstan.extraArgs \o snapshot
           \o <<"--", target>>

(* ------------------------------------------------------------------ *)
(* Properties of buildPhpstanAnalyzeCommand                           *)
(* ------------------------------------------------------------------ *)

\* the --error-format flag of each format
ErrorFormatFlag(format) ==
  IF format = "raw" THEN "--error-format=raw" ELSE "--error-format=json"

\* C23: the args are the runtime's leading args without a first token analyze or
\* analyse, then analyze, --error-format=<format>, --no-progress,
\* --no-interaction, then -c <configPath> only when a config path is given, then
\* the options, then --, then the targets as given; the command is the
\* executable path or the command name and cwd the resolved working directory.
C23_AnalyzeCommand ==
  sample.command # <<>> =>
    LET params == sample.params
        runtime == params.resolvedRuntime.runtime
        built == sample.command[1]
        leading == IF runtime.args # <<>> /\ runtime.args[1] \in {"analyze", "analyse"}
                     THEN SubSeq(runtime.args, 2, Len(runtime.args))
                     ELSE runtime.args
        format == IF params.errorFormat = <<>> THEN "json" ELSE params.errorFormat[1]
        config == IF params.configPath \in {<<>>, <<"">>} THEN <<>>
                  ELSE <<"-c", params.configPath[1]>>
        given == IF params.options = <<>> THEN <<>> ELSE params.options[1]
    IN /\ built.args = leading
                         \o <<"analyze", ErrorFormatFlag(format), "--no-progress",
                              "--no-interaction">>
                         \o config \o given \o <<"--">> \o params.targets
       /\ built.command = (IF runtime.kind = "file" THEN runtime.executablePath
                           ELSE runtime.command)
       /\ built.cwd = params.resolvedRuntime.workingDirectory

\* a runtime whose arguments start with the subcommand twice, with a config path,
\* options and two targets
C23_Witness ==
  /\ sample.command # <<>>
  /\ sample.params.resolvedRuntime.runtime.args = <<"analyse", "analyse", "-v">>
  /\ sample.params.configPath = <<"phpstan.neon">>
  /\ sample.params.options = <<<<"--debug", "-v">>>>
  /\ sample.params.targets = <<"/p/b.php", "/p/a.php">>
  /\ sample.command[1].args =
       <<"analyse", "-v", "analyze", "--error-format=json", "--no-progress",
         "--no-interaction", "-c", "phpstan.neon", "--debug", "-v", "--",
         "/p/b.php", "/p/a.php">>

(* ------------------------------------------------------------------ *)
(* Properties of the command line written to the log                  *)
(* ------------------------------------------------------------------ *)

\* the part of an argument before its first '=', in lower case; <<>> if it has none
KeyOf(arg) ==
  IF \E i \in 1..Len(arg) : arg[i] = "="
    THEN <<toLowerCase(SubSeq(arg, 1, IndexOf(arg, "=") - 1))>>
    ELSE <<>>

\* how the claim renders argument i of args
Rendered(args, i) ==
  IF i > 1 /\ toLowerCase(args[i - 1]) \in {<<"-", "-", "t", "o", "k", "e", "n">>, <<"-", "-", "p", "a", "s", "s", "w", "o", "r", "d">>, <<"-", "-", "s", "e", "c", "r", "e", "t">>, <<"-", "-", "a", "p", "i", "-", "k", "e", "y">>, <<"-", "-", "a", "p", "i", "k", "e", "y">>}
    THEN <<"*", "*", "*">>
  ELSE IF KeyOf(args[i]) # <<>>
          /\ \E name \in {<<"t", "o", "k", "e", "n">>, <<"p", "a", "s", "s", "w", "o", "r", "d">>, <<"s", "e", "c", "r", "e", "t">>, <<"a", "p", "i", "k", "e", "y">>, <<"a", "p", "i", "-", "k", "e", "y">>} :
               Includes(KeyOf(args[i])[1], name)
    THEN SubSeq(args[i], 1, IndexOf(args[i], "=")) \o <<"*", "*", "*">>
  ELSE args[i]

RECURSIVE RenderedFrom(_, _)
RenderedFrom(args, i) ==
  IF i > Len(args) THEN <<>> ELSE <<" ">> \o Rendered(args, i) \o RenderedFrom(args, i + 1)

\* C24: the log line is the command followed by one token per argument in the
\* original order; the argument after a flag equal, whatever the case, to --token,
\* --password, --secret, --api-key or --apikey is ***, the value of a key=value
\* argument with a sensitive key is ***, and every other argument is unchanged.
C24_LogLine ==
  sample.text # <<>> => sample.text = LogCommand \o RenderedFrom(sample.args, 1)

(* ------------------------------------------------------------------ *)
(* Properties of two command lines written to the log                 *)
(* ------------------------------------------------------------------ *)

\* C40: two argument lists that differ only in values following a sensitive
\* flag, or in the value part of key=value arguments with a sensitive key, give
\* the same log line: the line does not depend on the secret values.
C40_SecretsNotLogged ==
  sample.text # <<>> => sample.text = sample.otherText

(* ------------------------------------------------------------------ *)
(* Properties of runProcess                                           *)
(* ------------------------------------------------------------------ *)

\* C25: the promise of runProcess is never rejected; once the child has had an
\* event it is resolved with the result of the first one, the exit code and the
\* captured output for a close, -1 and the stderr followed by the error text for
\* an error, and a later event changes nothing.
C25_RunnerResolves ==
  /\ sample.promise.state # "rejected"
  /\ sample.events # <<>> =>
       LET first == sample.events[1]
       IN /\ sample.promise.state = "resolved"
          /\ sample.promise.value[1].stdout = first.stdout
          /\ IF first.kind = "close"
               THEN /\ sample.promise.value[1].code = first.code
                    /\ sample.promise.value[1].stderr = first.stderr
               ELSE /\ sample.promise.value[1].code = -1
                    /\ sample.promise.value[1].stderr = first.stderr \o <<"\n", ErrorText>>

(* ------------------------------------------------------------------ *)
(* Properties of extractDiagnosticsForFile                            *)
(* ------------------------------------------------------------------ *)

\* an entry of a messages array that is an object with a non-empty string message
HasMessage(entry) ==
  /\ entry.t = "obj"
  /\ Get(entry, "message").t = "str"
  /\ Get(entry, "message").s # ""

\* C26: for an output that is no well-formed result for the target the result is
\* the empty list, without a fault; for a well-formed one it has one diagnostic
\* for each entry of the messages array that is an object with a non-empty
\* string message, in the order of the array, the other entries being skipped.
C26_ExtractForFile ==
  sample.result # <<>> =>
    LET result == sample.result[1]
        kept == SelectSeq(sample.messages, HasMessage)
    IN /\ ~result.fault
       /\ ~sample.wellFormed => result.diagnostics = <<>>
       /\ sample.wellFormed =>
            /\ Len(result.diagnostics) = Len(kept)
            /\ \A i \in 1..Len(kept) :
                 result.diagnostics[i].message[1] = Get(kept[i], "message").s

\* an entry that is skipped, followed by a message with its notes
C26_Witness ==
  /\ sample.result # <<>>
  /\ sample.wellFormed
  /\ Len(sample.messages) = 2
  /\ sample.messages[1] = JNull
  /\ Len(sample.result[1].diagnostics) = 1
  /\ sample.result[1].diagnostics[1].message = <<"m6", "identifier: id", "tip: t">>

\* C27: a diagnostic made from a message has start line max(0, line - 1) when
\* the line of the message is a number and 0 when it is missing or no number;
\* no line is negative and the end line is the start line.
C27_ZeroBasedLine ==
  (sample.result # <<>> /\ ~sample.result[1].fault) =>
    LET diagnostics == sample.result[1].diagnostics
        kept == SelectSeq(sample.messages, HasMessage)
    IN /\ Len(diagnostics) = Len(kept)
       /\ \A i \in 1..Len(diagnostics) :
            LET line == Get(kept[i], "line")
                start == diagnostics[i].range.start.line
            IN /\ line.t = "num" /\ line.n - 1 >= 0 => start = line.n - 1
               /\ line.t = "num" /\ line.n - 1 < 0 => start = 0
               /\ line.t # "num" => start = 0
               /\ start >= 0
               /\ diagnostics[i].range.end.line = start

\* a message of line 3 and one of line -2
C27_Witness ==
  /\ sample.result # <<>>
  /\ Len(sample.result[1].diagnostics) = 2
  /\ Get(sample.messages[1], "line") = JNum(3)
  /\ sample.result[1].diagnostics[1].range.start.line = 2
  /\ Get(sample.messages[2], "line") = JNum(-2)
  /\ sample.result[1].diagnostics[2].range.start.line = 0

(* ------------------------------------------------------------------ *)
(* Properties of the runtime detection                                *)
(* ------------------------------------------------------------------ *)

\* the first of the candidates that is not null, null if there is none
RECURSIVE FirstFound(_)
FirstFound(candidates) ==
  IF candidates = <<>> THEN <<>>
  ELSE IF Head(candidates) # <<>> THEN Head(candidates)
  ELSE FirstFound(Tail(candidates))

\* the strategies in their documented order, on what composer.json parses to
Strategies(fs, composerJson) ==
  <<detectFromScriptsPhpstan(fs, ComposerDir, Get(Get(composerJson, "scripts"), "phpstan")),
    detectFromVendorDir(fs, ComposerDir, Get(Get(composerJson, "config"), "vendor-dir")),
    detectFromDefaultVendorDir(fs, ComposerDir),
    detectFromBamarniPlugin(fs, ComposerDir, composerJson)>>

\* C30: the runtime detected is the result of the first strategy that succeeds,
\* in the order scripts.phpstan, config.vendor-dir, default vendor directory,
\* plugin target, whatever composer.json holds and whichever files exist; it is
\* null if none succeeds or composer.json cannot be read or parsed, or holds no
\* object.
C30_FirstStrategy ==
  sample.result # <<>> =>
    sample.result[1] =
      IF sample.content = <<>> THEN <<>>
      ELSE IF sample.content[1].t # "obj" THEN <<>>
      ELSE FirstFound(Strategies(sample.fs, sample.content[1]))

(* ------------------------------------------------------------------ *)
(* Properties of the settings received from the client                *)
(* ------------------------------------------------------------------ *)

\* the value of phpstan.commandOverride in a payload, at its root or under the
\* scope that holds the settings
MentionedOverride(payload) ==
  LET scopes == <<Get(payload, "settings"), Get(payload, "phpstanLsLite"), payload>>
      values == [i \in 1..3 |-> Get(Get(scopes[i], "phpstan"), "commandOverride")]
  IN IF values[1].t # "undefined" THEN values[1]
     ELSE IF values[2].t # "undefined" THEN values[2]
     ELSE values[3]

\* C31: after a settings payload whose phpstan.commandOverride is null no
\* override is configured, and the command of an analysis is the detected one;
\* after a payload that does not mention commandOverride the override is the
\* one configured before.
C31_NullRemovesOverride ==
  sample.payload # <<>> =>
    /\ MentionedOverride(sample.payload[1]).t = "null" =>
         /\ sample.phpstan.commandOverride = <<>>
         /\ sample.command # <<>> => sample.command[1].command = "phpstan"
    /\ MentionedOverride(sample.payload[1]).t = "undefined" =>
         sample.phpstan.commandOverride = sample.before.commandOverride

\* C32: a run that is not stale after its fallback process, and takes neither
\* per-file nor global diagnostics from the fallback output, publishes the
\* synthesized execution-failure diagnostic, not the empty set.
C32_FallbackFailurePublished ==
  (sample.kind # <<>> /\ ~sample.r.forFile /\ ~sample.r.globalErrors) =>
    sample.kind[1] = "failure"

====
